---- MODULE Spec2Model ----
(***************************************************************************)
(* HelperBot (src/api/index.js, second program of the file, lines 419 to   *)
(* 1023): a Slack bot that classifies a mention text, and then archives    *)
(* the thread as a Notion page, lists the statuses of the pages of a       *)
(* database, or changes the status of one page.  Its predecessor           *)
(* FeatureBot (src/unnamed/part_001) follows, as a specification of its    *)
(* own over the same variables.                                            *)
(*                                                                         *)
(* Texts are TLA+ strings; the JavaScript string operations of the source  *)
(* (toLowerCase, includes, trim, split on a regular expression, replace)   *)
(* are defined below character by character.                               *)
(***************************************************************************)
EXTENDS Integers, Sequences, FiniteSets, TLC

(***************************************************************************)
(* JavaScript string primitives                                            *)
(***************************************************************************)

\* s.charAt(i-1): the i-th character as a one-character string
charAt(s, i) == SubSeq(s, i, i)

\* the characters the regular expression class \s matches
WhitespaceChars == {" ", "\n", "\t"}

IsWhitespace(c) == c \in WhitespaceChars

UpperCaseChars == <<"A","B","C","D","E","F","G","H","I","J","K","L","M",
                    "N","O","P","Q","R","S","T","U","V","W","X","Y","Z">>

LowerCaseChars == <<"a","b","c","d","e","f","g","h","i","j","k","l","m",
                    "n","o","p","q","r","s","t","u","v","w","x","y","z">>

toLowerCaseChar(c) ==
    IF \E k \in 1..26 : UpperCaseChars[k] = c
    THEN LowerCaseChars[CHOOSE k \in 1..26 : UpperCaseChars[k] = c]
    ELSE c

RECURSIVE toLowerCase(_)
toLowerCase(s) ==
    IF Len(s) = 0 THEN ""
    ELSE IF Len(s) = 1 THEN toLowerCaseChar(s)
    ELSE toLowerCase(SubSeq(s, 1, Len(s) \div 2))
         \o toLowerCase(SubSeq(s, (Len(s) \div 2) + 1, Len(s)))

\* s.includes(p)
includes(s, p) ==
    \E i \in 0..(Len(s) - Len(p)) : SubSeq(s, i + 1, i + Len(p)) = p

\* s.trim()
trim(s) ==
    IF \A i \in 1..Len(s) : IsWhitespace(charAt(s, i)) THEN ""
    ELSE LET a == CHOOSE i \in 1..Len(s) :
                    /\ ~IsWhitespace(charAt(s, i))
                    /\ \A j \in 1..(i - 1) : IsWhitespace(charAt(s, j))
             b == CHOOSE i \in 1..Len(s) :
                    /\ ~IsWhitespace(charAt(s, i))
                    /\ \A j \in (i + 1)..Len(s) : IsWhitespace(charAt(s, j))
         IN  SubSeq(s, a, b)

\* s.replace(/"/g, '')
RECURSIVE stripQuotes(_)
stripQuotes(s) ==
    IF Len(s) = 0 THEN ""
    ELSE (IF charAt(s, 1) = "\"" THEN "" ELSE charAt(s, 1))
         \o stripQuotes(SubSeq(s, 2, Len(s)))

\* the last index of the run of whitespace that starts at i (s[i] is whitespace)
WhitespaceRunEnd(s, i) ==
    CHOOSE j \in i..Len(s) :
        /\ \A k \in i..j : IsWhitespace(charAt(s, k))
        /\ (j = Len(s) \/ ~IsWhitespace(charAt(s, j + 1)))

\* /update\s+/i matched at index i: the index of its last character, 0 if no match
MatchUpdateAt(s, i) ==
    IF /\ i + 6 <= Len(s)
       /\ toLowerCase(SubSeq(s, i, i + 5)) = "update"
       /\ IsWhitespace(charAt(s, i + 6))
    THEN WhitespaceRunEnd(s, i + 6)
    ELSE 0

\* /\s+to\s+/i matched at index i: the index of its last character, 0 if no match
MatchToAt(s, i) ==
    IF i <= Len(s) /\ IsWhitespace(charAt(s, i))
    THEN LET j == WhitespaceRunEnd(s, i)
         IN  IF /\ j + 3 <= Len(s)
                /\ toLowerCase(SubSeq(s, j + 1, j + 2)) = "to"
                /\ IsWhitespace(charAt(s, j + 3))
             THEN WhitespaceRunEnd(s, j + 3)
             ELSE 0
    ELSE 0

\* s.split(/update\s+/i), as a sequence of strings
RECURSIVE splitUpdate(_)
splitUpdate(s) ==
    IF \E i \in 1..Len(s) : MatchUpdateAt(s, i) > 0
    THEN LET i == CHOOSE i \in 1..Len(s) :
                    /\ MatchUpdateAt(s, i) > 0
                    /\ \A j \in 1..(i - 1) : MatchUpdateAt(s, j) = 0
         IN  <<SubSeq(s, 1, i - 1)>>
             \o splitUpdate(SubSeq(s, MatchUpdateAt(s, i) + 1, Len(s)))
    ELSE <<s>>

\* s.split(/\s+to\s+/i), as a sequence of strings
RECURSIVE splitTo(_)
splitTo(s) ==
    IF \E i \in 1..Len(s) : MatchToAt(s, i) > 0
    THEN LET i == CHOOSE i \in 1..Len(s) :
                    /\ MatchToAt(s, i) > 0
                    /\ \A j \in 1..(i - 1) : MatchToAt(s, j) = 0
         IN  <<SubSeq(s, 1, i - 1)>>
             \o splitTo(SubSeq(s, MatchToAt(s, i) + 1, Len(s)))
    ELSE <<s>>

(***************************************************************************)
(* Configuration and classification                                        *)
(***************************************************************************)

\* the Notion database of each request type (both configured)
databaseIds == [feature |-> "db_feature", bd |-> "db_bd"]

validStatuses ==
    [feature |-> <<"New", "In Progress", "Pending Review", "Completed", "Rejected">>,
     bd      |-> <<"Not in CRM yet", "Added to CRM">>]

\* a field an object does not have
Undefined == "<undefined>"

\* getRequestType if only "bd" were looked for
getRequestType_BdOnly(text) ==
    IF includes(toLowerCase(text), "bd") THEN "bd" ELSE "feature"

\* getRequestType(text)
getRequestType(text) ==
    LET lowerText == toLowerCase(text)
        isBdRequest == includes(lowerText, "bd")
                       \/ includes(lowerText, "business development")
    IN  IF isBdRequest THEN "bd" ELSE "feature"

Command(type, requestType, showCompleted, featureQuery, newStatus) ==
    [type |-> type, requestType |-> requestType, showCompleted |-> showCompleted,
     featureQuery |-> featureQuery, newStatus |-> newStatus]

\* no command parsed yet
NoCommand == Command("<none>", Undefined, Undefined, Undefined, Undefined)

\* text.split(/update\s+/i)[1] is undefined, so that .split on it throws a
\* TypeError (the update branch of parseCommand, reached after help and status)
parseCommandThrows(text) ==
    LET lowerText == toLowerCase(text)
    IN  /\ ~(includes(lowerText, "help") \/ includes(lowerText, "commands"))
        /\ ~includes(lowerText, "status")
        /\ includes(lowerText, "update") /\ includes(lowerText, " to ")
        /\ Len(splitUpdate(text)) < 2

\* parseCommand if "status" were looked for before "help"
parseCommand_StatusFirst(text) ==
    LET requestType == getRequestType(text)
        lowerText == toLowerCase(text)
    IN  IF includes(lowerText, "status")
        THEN Command("status", requestType,
                     includes(lowerText, "all") \/ includes(lowerText, "completed"),
                     Undefined, Undefined)
        ELSE IF includes(lowerText, "help") \/ includes(lowerText, "commands")
        THEN Command("help", Undefined, Undefined, Undefined, Undefined)
        ELSE Command("create", requestType, Undefined, Undefined, Undefined)

\* parseCommand if only "all" revealed the completed requests
parseCommand_AllOnly(text) ==
    LET requestType == getRequestType(text)
        lowerText == toLowerCase(text)
    IN  IF includes(lowerText, "help") \/ includes(lowerText, "commands")
        THEN Command("help", Undefined, Undefined, Undefined, Undefined)
        ELSE IF includes(lowerText, "status")
        THEN Command("status", requestType, includes(lowerText, "all"),
                     Undefined, Undefined)
        ELSE Command("create", requestType, Undefined, Undefined, Undefined)

parseCommand(text) ==
    LET requestType == getRequestType(text)
        lowerText == toLowerCase(text)
    IN  IF includes(lowerText, "help") \/ includes(lowerText, "commands")
        THEN Command("help", Undefined, Undefined, Undefined, Undefined)
        ELSE IF includes(lowerText, "status")
        THEN Command("status", requestType,
                     includes(lowerText, "all") \/ includes(lowerText, "completed"),
                     Undefined, Undefined)
        ELSE IF /\ includes(lowerText, "update") /\ includes(lowerText, " to ")
                /\ Len(splitUpdate(text)) >= 2
                /\ Len(splitTo(splitUpdate(text)[2])) >= 2
        THEN LET parts == splitTo(splitUpdate(text)[2])
             IN  Command("update", requestType, Undefined,
                         trim(parts[1]), stripQuotes(trim(parts[2])))
        ELSE Command("create", requestType, Undefined, Undefined, Undefined)

(***************************************************************************)
(* The state: the mention events being handled, the Notion pages, and the  *)
(* messages the bot has posted in Slack.                                   *)
(***************************************************************************)

VARIABLES
    inputText,      \* the text given to parseCommand (classification alone)
    parsedCommand,  \* what parseCommand returned for it
    mention,        \* mention[e]: the app_mention event e and the thread it is in
    caseSensitive,  \* whether Notion's Title "contains" filter is case sensitive
    pc,             \* pc[e]: the call the handler of event e is waiting for
    local,          \* local[e]: the local variables of the handler of event e
    pages,          \* Notion: the pages, a page's id is its index
    editOrder,      \* Notion: the page ids, the most recently edited first
    messages,       \* Slack: messages[e]: the messages posted while handling event e,
                    \* in order; the ts of a message is its index
    calls           \* calls[e]: the API calls issued while handling event e, in order

vars == <<inputText, parsedCommand, mention, caseSensitive, pc, local,
          pages, editOrder, messages, calls>>

\* the handlers of app_mention: they share nothing but Notion and Slack, and
\* interleave at every await
Events == {1, 2}

NOTION_TIMEOUT_MS == 10000

\* stand-ins for the emoji and the bullet of the reply texts
CheckMark == ":white_check_mark:"

CrossMark == ":x:"

Bullet == "(*)"

RECURSIVE joinWith(_, _)
joinWith(strings, sep) ==
    IF Len(strings) = 0 THEN ""
    ELSE IF Len(strings) = 1 THEN strings[1]
    ELSE strings[1] \o sep \o joinWith(Tail(strings), sep)

\* requestType.charAt(0).toUpperCase() + requestType.slice(1)
capitalize(s) ==
    IF Len(s) = 0 THEN ""
    ELSE (IF \E k \in 1..26 : LowerCaseChars[k] = charAt(s, 1)
          THEN UpperCaseChars[CHOOSE k \in 1..26 : LowerCaseChars[k] = charAt(s, 1)]
          ELSE charAt(s, 1))
         \o SubSeq(s, 2, Len(s))

\* threadTs if every reply were threaded under the mention itself
threadTs_EventTs(e) == mention[e].ts

\* event.thread_ts || event.ts
threadTs(e) ==
    IF mention[e].thread_ts # Undefined THEN mention[e].thread_ts ELSE mention[e].ts

(***************************************************************************)
(* Errors                                                                  *)
(***************************************************************************)

Error(message, code) == [message |-> message, code |-> code]

NoError == Error(Undefined, Undefined)

\* a failed Slack Web API call
SlackError == Error("An API error occurred: ratelimited", "slack_webapi_platform_error")

\* the Notion client gave up after timeoutMs
NotionTimeout == Error("Request to Notion API has timed out", "notionhq_client_request_timeout")

NotionNotFound == Error("Could not find database", "notFound")

NotionOther == Error("API token is invalid", "unauthorized")

\* the ways a Notion call fails
NotionErrors == {NotionTimeout, NotionNotFound, NotionOther}

\* new Error('Request timed out') of the timeoutPromise of handleStatusCommand
RaceTimeout == Error("Request timed out", Undefined)

(***************************************************************************)
(* Notion                                                                  *)
(***************************************************************************)

Page(database_id, Title, Status, SlackURL, DateCreated, children) ==
    [database_id |-> database_id, Title |-> Title, Status |-> Status,
     SlackURL |-> SlackURL, DateCreated |-> DateCreated, children |-> children]

\* the pages the databases may hold before any mention is handled
SeedPages ==
    <<Page("db_feature", "Foo widget", "New", "https://slack.com/archives/C1/p1",
           "2023-11-01T09:00:00.000Z", <<>>),
      Page("db_feature", "Foo bar", "Completed", "https://slack.com/archives/C1/p2",
           "2023-11-02T09:00:00.000Z", <<>>),
      Page("db_bd", "Bd request: Add acme", "Added to CRM", "https://slack.com/archives/C1/p3",
           "2023-11-03T09:00:00.000Z", <<>>),
      Page("db_bd", "Bd request: Add initech", "Not in CRM yet", "https://slack.com/archives/C1/p4",
           "2023-11-04T09:00:00.000Z", <<>>)>>

MaxSeedPages == 3

\* rich_text: { contains: query } on Title
TitleContains(title, query) ==
    IF caseSensitive THEN includes(title, query)
    ELSE includes(toLowerCase(title), toLowerCase(query))

\* whether a page of a database passes the filter of a query
Matches(page, queryOptions) ==
    /\ page.database_id = queryOptions.database_id
    /\ CASE queryOptions.filter = "Title contains" ->
                TitleContains(page.Title, queryOptions.value)
         [] queryOptions.filter = "Status does_not_equal" ->
                page.Status # queryOptions.value
         [] OTHER -> TRUE

\* what a query returns for a page: its id and its properties as of the query
Snapshot(ids) ==
    [i \in 1..Len(ids) |->
        [id |-> ids[i], Title |-> pages[ids[i]].Title, Status |-> pages[ids[i]].Status]]

\* notion.databases.query({database_id, filter, sorts: last_edited_time descending, page_size})
databasesQuery(queryOptions) ==
    LET found == SelectSeq(editOrder, LAMBDA id : Matches(pages[id], queryOptions))
    IN  Snapshot(SubSeq(found, 1, IF queryOptions.page_size < Len(found)
                                  THEN queryOptions.page_size ELSE Len(found)))

(***************************************************************************)
(* Slack                                                                   *)
(***************************************************************************)

Users == [U1 |-> "Ada Lovelace", U2 |-> "Bob Builder"]

Message(user, txt, ts) == [user |-> user, text |-> txt, ts |-> ts]

\* the mention events a handler may be given, each with the messages of its
\* thread (the root first) as conversations.replies returns them
MentionInputs ==
    <<[text |-> "help", thread |-> <<>>],
      [text |-> "status", thread |-> <<>>],
      [text |-> "status bd", thread |-> <<>>],
      [text |-> "status bd all", thread |-> <<>>],
      [text |-> "update foo to Completed", thread |-> <<>>],
      [text |-> "update Foo widget to in progress", thread |-> <<>>],
      [text |-> "update foo to Blorp", thread |-> <<>>],
      [text |-> "update Foo to rejected", thread |-> <<>>],
      [text |-> "bd update acme to not in crm yet", thread |-> <<>>],
      [text |-> "bd update acme to Added to CRM", thread |-> <<>>],
      [text |-> "updates to pricing", thread |-> <<>>],
      [text |-> "<@U0BOT> save this",
       thread |-> <<Message("U1", "Dark mode\nfor the dashboard", "1700000000.000100"),
                    Message("U2", "@helperbot save this", "1700000000.000200"),
                    Message("U2", "needed by Q3", "1700000000.000300")>>],
      [text |-> "<@U0BOT> add acme to bd", thread |-> <<>>],
      [text |-> "status all", thread |-> <<>>],
      [text |-> "update bd acme to not in crm yet", thread |-> <<>>],
      [text |-> "<@U0BOT> add acme_holdings_of_the_united_federation_of_planets_and_its_subsidiaries_worldwide_llc to bd",
       thread |-> <<>>],
      [text |-> "<@U0BOT> please save",
       thread |-> <<Message("U1", "Export to CSV", "1700000000.000400"),
                    Message("U2", "<@U0BOT> please save", "1700000000.000500")>>],
      [text |-> "<@U0BOT> status bd",
       thread |-> <<Message("U1", "Pipeline review", "1700000000.000600"),
                    Message("U2", "<@U0BOT> status bd", "1700000000.000700")>>]>>

\* the event of an input, the i-th of its list, given to handler e; an input
\* without a thread is the root of its own thread
EventOf(input, e, i) ==
    LET ts == "170000000" \o (IF e = 1 THEN "1" ELSE "2") \o ".000900"
    IN  [input |-> i,
         text |-> input.text,
         channel |-> "C1",
         ts |-> ts,
         thread_ts |-> IF Len(input.thread) = 0 THEN Undefined ELSE input.thread[1].ts,
         thread |-> IF Len(input.thread) = 0
                    THEN <<Message("U1", input.text, ts)>>
                    ELSE input.thread]

MentionEvent(e, i) == EventOf(MentionInputs[i], e, i)

SlackMessage(e, txt) ==
    [channel |-> mention[e].channel, thread_ts |-> threadTs(e), text |-> txt,
     updates |-> 0]

\* client.chat.postMessage({channel, thread_ts: threadTs, text}) for event e
postMessage(e, txt, ok) ==
    messages' = IF ok THEN [messages EXCEPT ![e] = Append(@, SlackMessage(e, txt))]
                ELSE messages

\* chatUpdate if the result were posted as a second message
chatUpdate_PostsNew(e, ts, txt, ok) ==
    messages' = IF ok THEN [messages EXCEPT ![e] = Append(@, SlackMessage(e, txt))]
                ELSE messages

\* client.chat.update({channel, ts, text}) while handling event e
chatUpdate(e, ts, txt, ok) ==
    messages' = IF ok
                THEN [messages EXCEPT ![e][ts].text = txt, ![e][ts].updates = @ + 1]
                ELSE messages

\* a call of the Slack or Notion API: its arguments, whether it returned (ok)
\* or threw, and for a Notion mutation whether Notion applied it
Call(api, arg, ok, applied) == [api |-> api, arg |-> arg, ok |-> ok, applied |-> applied]

Log(e, api, arg, ok) == calls' = [calls EXCEPT ![e] = Append(@, Call(api, arg, ok, ok))]

Goto(e, label) == pc' = [pc EXCEPT ![e] = label]

(***************************************************************************)
(* The handler of app_mention                                              *)
(***************************************************************************)

Locals ==
    [command |-> NoCommand, error |-> NoError, loadingMessage |-> 0,
     response |-> <<>>, exactStatusMatch |-> Undefined,
     attempt |-> 0, replies |-> <<>>, requesterInfo |-> Undefined,
     channelInfo |-> Undefined, requestTitle |-> Undefined,
     fullDescription |-> Undefined, msgIndex |-> 0, responsePromise |-> Undefined]

Init ==
    /\ inputText = ""
    /\ parsedCommand = NoCommand
    /\ mention \in {[e \in Events |-> MentionEvent(e, IF e = 1 THEN i ELSE 1)] :
                        i \in 1..Len(MentionInputs)}
    /\ caseSensitive \in BOOLEAN
    /\ pc = [e \in Events |-> IF e = 1 THEN "app_mention" ELSE "idle"]
    /\ local = [e \in Events |-> Locals]
    /\ \E n \in 0..MaxSeedPages :
          /\ pages = SubSeq(SeedPages, 1, n)
          /\ editOrder = [i \in 1..n |-> n + 1 - i]
    /\ messages = [e \in Events |-> <<>>]
    /\ calls = [e \in Events |-> <<>>]

\* exactStatusMatch if the comparison kept the letter case: find(status => status === newStatus)
exactStatusMatch_CaseSensitive(requestType, newStatus) ==
    IF \E k \in 1..Len(validStatuses[requestType]) :
           validStatuses[requestType][k] = newStatus
    THEN newStatus
    ELSE Undefined

\* exactStatusMatch if the status were written as the user typed it
exactStatusMatch_UserCasing(requestType, newStatus) ==
    IF \E k \in 1..Len(validStatuses[requestType]) :
           toLowerCase(validStatuses[requestType][k]) = toLowerCase(newStatus)
    THEN newStatus
    ELSE Undefined

\* statusOptions.find(status => status.toLowerCase() === newStatus.toLowerCase())
exactStatusMatch(requestType, newStatus) ==
    LET statusOptions == validStatuses[requestType]
    IN  IF \E k \in 1..Len(statusOptions) :
               toLowerCase(statusOptions[k]) = toLowerCase(newStatus)
        THEN statusOptions[CHOOSE k \in 1..Len(statusOptions) :
                 /\ toLowerCase(statusOptions[k]) = toLowerCase(newStatus)
                 /\ \A j \in 1..(k - 1) :
                        toLowerCase(statusOptions[j]) # toLowerCase(newStatus)]
        ELSE Undefined

\* the first call of the handler of each command type; handleUpdateCommand
\* validates the status before its first call
FirstCall(cmd) ==
    CASE cmd.type = "help" -> "help:postMessage"
      [] cmd.type = "status" -> "status:postMessage"
      [] cmd.type = "update" ->
            IF exactStatusMatch(cmd.requestType, cmd.newStatus) = Undefined
            THEN "update:invalid:postMessage"
            ELSE "update:databases.query"
      [] OTHER -> "create:conversations.replies"

\* parseCommand(event.text) for each input: the command, or the TypeError thrown
ParsedInputs ==
    [i \in 1..Len(MentionInputs) |->
        IF parseCommandThrows(MentionInputs[i].text)
        THEN Command("TypeError", Undefined, Undefined, Undefined, Undefined)
        ELSE parseCommand(MentionInputs[i].text)]

\* app.event('app_mention'): parseCommand, then the switch on command.type, up
\* to the first await of the handler chosen
AppMention(e) ==
    /\ pc[e] = "app_mention"
    /\ IF ParsedInputs[mention[e].input].type = "TypeError"
       THEN /\ Goto(e, "catch:postMessage")
            /\ local' = [local EXCEPT ![e].error =
                            Error("Cannot read properties of undefined (reading 'split')",
                                  Undefined)]
       ELSE LET cmd == ParsedInputs[mention[e].input]
            IN  /\ Goto(e, FirstCall(cmd))
                /\ local' = [local EXCEPT
                                ![e].command = cmd,
                                ![e].exactStatusMatch =
                                    IF cmd.type = "update"
                                    THEN exactStatusMatch(cmd.requestType, cmd.newStatus)
                                    ELSE Undefined]
    /\ UNCHANGED <<inputText, parsedCommand, mention, caseSensitive,
                   pages, editOrder, messages, calls>>

\* catch (error) of app.event('app_mention'): the error reply, whose own
\* failure is caught and logged
AppMentionCatch(e) ==
    /\ pc[e] = "catch:postMessage"
    /\ \E ok \in BOOLEAN :
          LET txt == CrossMark \o " Something went wrong: " \o local[e].error.message
          IN  /\ postMessage(e, txt, ok)
              /\ Log(e, "chat.postMessage", txt, ok)
    /\ Goto(e, "done")
    /\ UNCHANGED <<inputText, parsedCommand, mention, caseSensitive,
                   local, pages, editOrder>>

helpText ==
    "*HelperBot Commands:* ... *Valid statuses:* - Feature requests: "
    \o joinWith(validStatuses.feature, ", ")
    \o " - BD requests: " \o joinWith(validStatuses.bd, ", ")

\* handleHelpCommand
HandleHelpCommand(e) ==
    /\ pc[e] = "help:postMessage"
    /\ \E ok \in BOOLEAN :
          /\ postMessage(e, helpText, ok)
          /\ Log(e, "chat.postMessage", helpText, ok)
          /\ Goto(e, IF ok THEN "done" ELSE "catch:postMessage")
          /\ local' = IF ok THEN local ELSE [local EXCEPT ![e].error = SlackError]
    /\ UNCHANGED <<inputText, parsedCommand, mention, caseSensitive, pages, editOrder>>

\* errorDetail if every error were reported by its own message
errorDetail_Generic(error, notFoundText, checkDateCreated) == ": " \o error.message

\* the suffix the catch blocks of the handlers add for the error caught
errorDetail(error, notFoundText, checkDateCreated) ==
    IF includes(error.message, "timed out")
    THEN ": Request timed out. The Notion API might be experiencing delays."
    ELSE IF error.code = "notFound" THEN notFoundText
    ELSE IF checkDateCreated /\ includes(error.message, "Date Created")
    THEN ": 'Date Created' property issue. Please add this property to your Notion database."
    ELSE ": " \o error.message

\* a || b on strings
orElse(a, b) == IF a = "" \/ a = Undefined THEN b ELSE a

(***************************************************************************)
(* handleStatusCommand                                                     *)
(***************************************************************************)

\* completedStatus if every category ended in "Completed"
completedStatus_FeatureOnly(requestType) == "Completed"

completedStatus(requestType) == IF requestType = "bd" THEN "Added to CRM" ELSE "Completed"

RECURSIVE statusLines(_)
statusLines(results) ==
    IF Len(results) = 0 THEN ""
    ELSE Bullet \o " *" \o orElse(results[1].Title, "Untitled") \o "* - "
         \o orElse(results[1].Status, "Unknown") \o "\n" \o statusLines(Tail(results))

\* formattedResponse if an empty result were rendered as the text alone, as
\* formatFeaturesForSlack of the earlier bot renders it
formattedResponse_TextAlone(requestType, showCompleted, results) ==
    IF Len(results) = 0 THEN "No requests found."
    ELSE "*" \o capitalize(requestType) \o " Requests Status:*\n\n" \o statusLines(results)

formattedResponse(requestType, showCompleted, results) ==
    "*" \o capitalize(requestType) \o " Requests Status:*\n\n"
    \o (IF Len(results) = 0 THEN "No requests found." ELSE statusLines(results))
    \o (IF ~showCompleted
        THEN "\n_" \o completedStatus(requestType) \o " " \o requestType
             \o " requests are hidden. Use '@helperbot status " \o requestType
             \o " all' to see everything._"
        ELSE "")

\* const loadingMessage = await client.chat.postMessage(...), before the try
StatusPostLoading(e) ==
    /\ pc[e] = "status:postMessage"
    /\ \E ok \in BOOLEAN :
          /\ LET loadingText == "Fetching " \o capitalize(local[e].command.requestType)
                                \o " statuses..."
             IN  /\ postMessage(e, loadingText, ok)
                 /\ Log(e, "chat.postMessage", loadingText, ok)
          /\ Goto(e, IF ok THEN "status:databases.query" ELSE "catch:postMessage")
          /\ local' = IF ok
                      THEN [local EXCEPT ![e].loadingMessage = Len(messages[e]) + 1]
                      ELSE [local EXCEPT ![e].error = SlackError]
    /\ UNCHANGED <<inputText, parsedCommand, mention, caseSensitive, pages, editOrder>>

QueryOptions(database_id, filter, value, page_size) ==
    [database_id |-> database_id, filter |-> filter, value |-> value,
     page_size |-> page_size]

\* queryOptions of handleStatusCommand: the filter only when !showCompleted
statusQueryOptions(requestType, showCompleted) ==
    IF ~showCompleted
    THEN QueryOptions(databaseIds[requestType], "Status does_not_equal",
                      completedStatus(requestType), 10)
    ELSE QueryOptions(databaseIds[requestType], "none", Undefined, 10)

\* StatusQuery if listing a request closed it: the pages returned move to the
\* completed status of the category
StatusQuery_Closes(e) ==
    /\ pc[e] = "status:databases.query"
    /\ LET queryOptions == statusQueryOptions(local[e].command.requestType,
                                               local[e].command.showCompleted)
       IN  /\ local' = [local EXCEPT ![e].response = databasesQuery(queryOptions)]
           /\ pages' = [id \in 1..Len(pages) |->
                          IF Matches(pages[id], queryOptions)
                          THEN [pages[id] EXCEPT
                                   !.Status = completedStatus(local[e].command.requestType)]
                          ELSE pages[id]]
           /\ Log(e, "databases.query", queryOptions, TRUE)
           /\ Goto(e, "status:chat.update")
    /\ UNCHANGED <<inputText, parsedCommand, mention, caseSensitive, editOrder, messages>>

\* StatusQuery if neither the race nor the client had a timeout and Notion
\* did not respond: the handler waits at the await for ever
StatusQuery_NeverSettles(e) ==
    /\ pc[e] = "status:databases.query"
    /\ FALSE
    /\ UNCHANGED vars

\* StatusResponseLate if the response that lost the race were rendered all
\* the same
StatusResponseLate_Renders(e) ==
    /\ local[e].responsePromise = "pending"
    /\ local' = [local EXCEPT ![e].responsePromise = "fulfilled"]
    /\ chatUpdate(e, local[e].loadingMessage,
                  formattedResponse(local[e].command.requestType,
                                    local[e].command.showCompleted,
                                    databasesQuery(calls[e][Len(calls[e])].arg)), TRUE)
    /\ Log(e, "chat.update",
           formattedResponse(local[e].command.requestType,
                             local[e].command.showCompleted,
                             databasesQuery(calls[e][Len(calls[e])].arg)), TRUE)
    /\ UNCHANGED <<inputText, parsedCommand, mention, caseSensitive, pc, pages, editOrder>>

\* responsePromise settles after timeoutPromise has rejected the race: the
\* race took its reactions on both promises, so that the late response or
\* error is dropped and the handler is not resumed
StatusResponseLate(e) ==
    /\ local[e].responsePromise = "pending"
    /\ \E settled \in {"fulfilled", "rejected"} :
          local' = [local EXCEPT ![e].responsePromise = settled]
    /\ UNCHANGED <<inputText, parsedCommand, mention, caseSensitive, pc,
                   pages, editOrder, messages, calls>>

\* const response = await Promise.race([responsePromise, timeoutPromise])
StatusQuery(e) ==
    /\ pc[e] = "status:databases.query"
    /\ LET queryOptions == statusQueryOptions(local[e].command.requestType,
                                               local[e].command.showCompleted)
       IN  \/ /\ local' = [local EXCEPT ![e].response = databasesQuery(queryOptions),
                                        ![e].responsePromise = "fulfilled"]
              /\ Log(e, "databases.query", queryOptions, TRUE)
              /\ Goto(e, "status:chat.update")
           \/ \E error \in NotionErrors \cup {RaceTimeout} :
                 /\ local' = [local EXCEPT ![e].error = error,
                                           ![e].responsePromise =
                                               IF error = RaceTimeout
                                               THEN "pending" ELSE "rejected"]
                 /\ Log(e, "databases.query", queryOptions, FALSE)
                 /\ Goto(e, "status:catch:chat.update")
    /\ UNCHANGED <<inputText, parsedCommand, mention, caseSensitive,
                   pages, editOrder, messages>>

\* await client.chat.update({ts: loadingMessage.ts, text: formattedResponse})
StatusUpdate(e) ==
    /\ pc[e] = "status:chat.update"
    /\ \E ok \in BOOLEAN :
          /\ chatUpdate(e, local[e].loadingMessage,
                        formattedResponse(local[e].command.requestType,
                                          local[e].command.showCompleted,
                                          local[e].response), ok)
          /\ Log(e, "chat.update",
                 formattedResponse(local[e].command.requestType,
                                   local[e].command.showCompleted,
                                   local[e].response), ok)
          /\ Goto(e, IF ok THEN "done" ELSE "status:catch:chat.update")
          /\ local' = IF ok THEN local ELSE [local EXCEPT ![e].error = SlackError]
    /\ UNCHANGED <<inputText, parsedCommand, mention, caseSensitive, pages, editOrder>>

statusErrorMessage(requestType, error) ==
    CrossMark \o " Failed to fetch " \o requestType \o " requests"
    \o errorDetail(error, ": Database not found. Please check your configuration.", FALSE)

\* catch (error) of handleStatusCommand
StatusCatch(e) ==
    /\ pc[e] = "status:catch:chat.update"
    /\ \E ok \in BOOLEAN :
          /\ chatUpdate(e, local[e].loadingMessage,
                        statusErrorMessage(local[e].command.requestType, local[e].error), ok)
          /\ Log(e, "chat.update",
                 statusErrorMessage(local[e].command.requestType, local[e].error), ok)
          /\ Goto(e, IF ok THEN "done" ELSE "catch:postMessage")
          /\ local' = IF ok THEN local ELSE [local EXCEPT ![e].error = SlackError]
    /\ UNCHANGED <<inputText, parsedCommand, mention, caseSensitive, pages, editOrder>>

(***************************************************************************)
(* handleUpdateCommand                                                     *)
(***************************************************************************)

\* the reply of a handler after which it returns, or whose failure its catch handles
Reply(e, label, txt, catchLabel) ==
    /\ pc[e] = label
    /\ \E ok \in BOOLEAN :
          /\ postMessage(e, txt, ok)
          /\ Log(e, "chat.postMessage", txt, ok)
          /\ Goto(e, IF ok THEN "done" ELSE catchLabel)
          /\ local' = IF ok THEN local ELSE [local EXCEPT ![e].error = SlackError]
    /\ UNCHANGED <<inputText, parsedCommand, mention, caseSensitive, pages, editOrder>>

\* if (!exactStatusMatch) { await client.chat.postMessage(...); return; }
UpdateInvalidStatus(e) ==
    Reply(e, "update:invalid:postMessage",
          CrossMark \o " Invalid status: \"" \o local[e].command.newStatus
          \o "\". Valid statuses for " \o local[e].command.requestType \o " are: "
          \o joinWith(validStatuses[local[e].command.requestType], ", "),
          "update:catch:postMessage")

\* where handleUpdateCommand goes with the results of its query
\* AfterUpdateQuery if the handler took the first of several matches
AfterUpdateQuery_PickFirst(results) ==
    IF Len(results) = 0 THEN "update:notfound:postMessage" ELSE "update:pages.update"

AfterUpdateQuery(results) ==
    IF Len(results) = 0 THEN "update:notfound:postMessage"
    ELSE IF Len(results) > 1 THEN "update:multiple:postMessage"
    ELSE "update:pages.update"

\* UpdateQuery if a query that fails were issued a second time
UpdateQuery_Retry(e) ==
    /\ pc[e] = "update:databases.query"
    /\ LET queryOptions == QueryOptions(databaseIds[local[e].command.requestType],
                                        "Title contains",
                                        local[e].command.featureQuery, 5)
       IN  \/ /\ local' = [local EXCEPT ![e].response = databasesQuery(queryOptions)]
              /\ Log(e, "databases.query", queryOptions, TRUE)
              /\ Goto(e, AfterUpdateQuery(databasesQuery(queryOptions)))
           \/ \E error \in NotionErrors :
                 /\ local' = [local EXCEPT ![e].error = error]
                 /\ Log(e, "databases.query", queryOptions, FALSE)
                 /\ Goto(e, IF Len(calls[e]) = 0 THEN "update:databases.query"
                            ELSE "update:catch:postMessage")
    /\ UNCHANGED <<inputText, parsedCommand, mention, caseSensitive,
                   pages, editOrder, messages>>

\* const response = await notion.databases.query({filter: Title contains featureQuery, page_size: 5})
UpdateQuery(e) ==
    /\ pc[e] = "update:databases.query"
    /\ LET queryOptions == QueryOptions(databaseIds[local[e].command.requestType],
                                        "Title contains",
                                        local[e].command.featureQuery, 5)
       IN  \/ /\ local' = [local EXCEPT ![e].response = databasesQuery(queryOptions)]
              /\ Log(e, "databases.query", queryOptions, TRUE)
              /\ Goto(e, AfterUpdateQuery(databasesQuery(queryOptions)))
           \/ \E error \in NotionErrors :
                 /\ local' = [local EXCEPT ![e].error = error]
                 /\ Log(e, "databases.query", queryOptions, FALSE)
                 /\ Goto(e, "update:catch:postMessage")
    /\ UNCHANGED <<inputText, parsedCommand, mention, caseSensitive,
                   pages, editOrder, messages>>

\* if (response.results.length === 0) { await client.chat.postMessage(...); return; }
UpdateNotFound(e) ==
    Reply(e, "update:notfound:postMessage",
          CrossMark \o " No " \o local[e].command.requestType
          \o " request found matching \"" \o local[e].command.featureQuery \o "\"",
          "update:catch:postMessage")

RECURSIVE titleLines(_)
titleLines(results) ==
    IF Len(results) = 0 THEN ""
    ELSE Bullet \o " *" \o orElse(results[1].Title, "Untitled") \o "*\n"
         \o titleLines(Tail(results))

\* if (response.results.length > 1) { ... multipleMatches ...; return; }
UpdateMultiple(e) ==
    Reply(e, "update:multiple:postMessage",
          "Found multiple matches for \"" \o local[e].command.featureQuery
          \o "\". Please be more specific:\n\n" \o titleLines(local[e].response),
          "update:catch:postMessage")

\* pagesUpdate if the update also stamped the page with the time of the update
pagesUpdate_Stamped(page_id, name) ==
    [pages EXCEPT ![page_id].Status = name, ![page_id].DateCreated = "2023-11-14T22:30:00.000Z"]

\* pagesUpdate if Notion refused to change a status that is no longer the first
\* of its enumeration
pagesUpdate_FirstWins(page_id, name) ==
    IF pages[page_id].Status \in {validStatuses.feature[1], validStatuses.bd[1]}
    THEN [pages EXCEPT ![page_id].Status = name]
    ELSE pages

\* the pages after notion.pages.update({page_id, properties: {Status: {select: {name}}}})
pagesUpdate(page_id, name) == [pages EXCEPT ![page_id].Status = name]

\* the edit order after page_id was edited or created
Touch(page_id) ==
    <<page_id>> \o SelectSeq(editOrder, LAMBDA id : id # page_id)

\* await notion.pages.update(...) on response.results[0]; a call that times out
\* may or may not have been applied by Notion
UpdatePagesUpdate(e) ==
    /\ pc[e] = "update:pages.update"
    /\ LET item == local[e].response[1]
           arg == [page_id |-> item.id, Status |-> local[e].exactStatusMatch]
       IN  \/ /\ pages' = pagesUpdate(item.id, local[e].exactStatusMatch)
              /\ editOrder' = Touch(item.id)
              /\ Log(e, "pages.update", arg, TRUE)
              /\ Goto(e, "update:postMessage")
              /\ UNCHANGED local
           \/ \E error \in NotionErrors, applied \in BOOLEAN :
                 /\ applied => error = NotionTimeout
                 /\ pages' = IF applied
                             THEN pagesUpdate(item.id, local[e].exactStatusMatch)
                             ELSE pages
                 /\ editOrder' = IF applied THEN Touch(item.id) ELSE editOrder
                 /\ calls' = [calls EXCEPT ![e] =
                               Append(@, Call("pages.update", arg, FALSE, applied))]
                 /\ local' = [local EXCEPT ![e].error = error]
                 /\ Goto(e, "update:catch:postMessage")
    /\ UNCHANGED <<inputText, parsedCommand, mention, caseSensitive, messages>>

updatedMessage(title, currentStatus, newStatus) ==
    CheckMark \o " Updated status of \"" \o title \o "\" from \"" \o currentStatus
    \o "\" to \"" \o newStatus \o "\""

\* the confirmation: title and currentStatus are those of the item as queried
UpdateConfirm(e) ==
    Reply(e, "update:postMessage",
          updatedMessage(orElse(local[e].response[1].Title, "Untitled"),
                         orElse(local[e].response[1].Status, "Unknown"),
                         local[e].exactStatusMatch),
          "update:catch:postMessage")

\* catch (error) of handleUpdateCommand
UpdateCatch(e) ==
    Reply(e, "update:catch:postMessage",
          CrossMark \o " Failed to update " \o local[e].command.requestType
          \o " request status"
          \o errorDetail(local[e].error,
                         ": Item or database not found. Please check your request.", FALSE),
          "catch:postMessage")

(***************************************************************************)
(* handleCreateCommand                                                     *)
(***************************************************************************)

\* the length requestTitle is cut to: substring(0, 80)
TitleLength == 80

substring(s, n) == SubSeq(s, 1, IF Len(s) < n THEN Len(s) ELSE n)

\* s.split('\n')[0]
firstLine(s) ==
    IF includes(s, "\n")
    THEN SubSeq(s, 1, (CHOOSE i \in 1..Len(s) :
                          /\ charAt(s, i) = "\n"
                          /\ \A j \in 1..(i - 1) : charAt(s, j) # "\n") - 1)
    ELSE s

\* the characters the regular expression class \w matches
WordChars ==
    {UpperCaseChars[k] : k \in 1..26} \cup {LowerCaseChars[k] : k \in 1..26}
    \cup {"0", "1", "2", "3", "4", "5", "6", "7", "8", "9", "_"}

\* the last index of the run of characters of class that starts at i
RunEnd(s, i, class) ==
    CHOOSE j \in i..Len(s) :
        /\ \A k \in i..j : charAt(s, k) \in class
        /\ (j = Len(s) \/ charAt(s, j + 1) \notin class)

startsWithAt(s, i, p) ==
    i + Len(p) - 1 <= Len(s) /\ SubSeq(s, i, i + Len(p) - 1) = p

\* /add\s+(\w+)\s+to\s+(bd|business development)/i matched at index i: the
\* team name (\w+), Undefined if no match
addToBdAt(s, i) ==
    IF /\ i + 4 <= Len(s)
       /\ toLowerCase(SubSeq(s, i, i + 2)) = "add"
       /\ IsWhitespace(charAt(s, i + 3))
    THEN LET j == WhitespaceRunEnd(s, i + 3)
         IN  IF j + 1 <= Len(s) /\ charAt(s, j + 1) \in WordChars
             THEN LET k == RunEnd(s, j + 1, WordChars)
                      n == MatchToAt(s, k + 1)
                  IN  IF /\ n > 0
                         /\ \/ startsWithAt(toLowerCase(s), n + 1, "bd")
                            \/ startsWithAt(toLowerCase(s), n + 1, "business development")
                      THEN SubSeq(s, j + 1, k)
                      ELSE Undefined
             ELSE Undefined
    ELSE Undefined

\* originalMessage.text.match(addToBdRegex)[1], Undefined if there is no match
addToBdTeamName(s) ==
    IF \E i \in 1..Len(s) : addToBdAt(s, i) # Undefined
    THEN addToBdAt(s, CHOOSE i \in 1..Len(s) :
                          /\ addToBdAt(s, i) # Undefined
                          /\ \A j \in 1..(i - 1) : addToBdAt(s, j) = Undefined)
    ELSE Undefined

UserIdChars ==
    {UpperCaseChars[k] : k \in 1..26}
    \cup {"0", "1", "2", "3", "4", "5", "6", "7", "8", "9"}

\* /<@[A-Z0-9]+>/ matched at the start of s: the index of its last character, 0 if no match
userIdMatchEnd(s) ==
    IF Len(s) >= 4 /\ SubSeq(s, 1, 2) = "<@" /\ charAt(s, 3) \in UserIdChars
    THEN LET k == RunEnd(s, 3, UserIdChars)
         IN  IF k + 1 <= Len(s) /\ charAt(s, k + 1) = ">" THEN k + 1 ELSE 0
    ELSE 0

\* s.replace(/<@[A-Z0-9]+>/g, '')
RECURSIVE removeUserIds(_)
removeUserIds(s) ==
    IF Len(s) = 0 THEN ""
    ELSE IF userIdMatchEnd(s) > 0
    THEN removeUserIds(SubSeq(s, userIdMatchEnd(s) + 1, Len(s)))
    ELSE charAt(s, 1) \o removeUserIds(SubSeq(s, 2, Len(s)))

\* the title of the request, from the text of the first message of the thread
requestTitle(originalText, requestType) ==
    LET title == substring(firstLine(originalText), TitleLength)
        prefix == capitalize(requestType) \o " request: "
        labelled(t) == IF ~includes(toLowerCase(t), requestType) THEN prefix \o t ELSE t
    IN  IF requestType = "bd"
        THEN IF addToBdTeamName(originalText) # Undefined
             THEN prefix \o "Add " \o addToBdTeamName(originalText)
             ELSE IF includes(title, "<@")
             THEN labelled(trim(removeUserIds(title)))
             ELSE labelled(title)
        ELSE labelled(title)

\* requestTitle(originalMessage.text, requestType) for the root message of the
\* thread of each input and each category
RequestTitles ==
    [i \in 1..Len(MentionInputs) |->
        [requestType \in {"feature", "bd"} |->
            requestTitle(MentionEvent(1, i).thread[1].text, requestType)]]

\* threadTs.replace('.', ''): the first "." removed
removeFirstDot(s) ==
    IF includes(s, ".")
    THEN LET i == CHOOSE i \in 1..Len(s) :
                    /\ charAt(s, i) = "."
                    /\ \A j \in 1..(i - 1) : charAt(s, j) # "."
         IN  SubSeq(s, 1, i - 1) \o SubSeq(s, i + 1, Len(s))
    ELSE s

slackUrl(channel, ts) ==
    "https://slack.com/archives/" \o channel \o "/p" \o removeFirstDot(ts)

\* Now if the clock read the time of the root message of the thread saved
Now_OfRootMessage == "2023-11-14T22:13:20.000Z"

\* new Date().toISOString() when the page is created
Now == "2023-11-14T22:30:00.000Z"

\* initialStatus if every category started in the first feature status
initialStatus_FeatureOnly(requestType) == validStatuses.feature[1]

initialStatus(requestType) ==
    IF requestType = "bd" THEN validStatuses.bd[1] ELSE validStatuses.feature[1]

\* if (!msg.text || msg.text.includes('@helperbot')) continue
skipped(msg) == msg.text = "" \/ includes(msg.text, "@helperbot")

\* the index of the first message of replies.messages, from index from on,
\* whose author is looked up; 0 if there is none
nextThreadMessage(replies, from) ==
    IF \E i \in from..Len(replies) : ~skipped(replies[i])
    THEN CHOOSE i \in from..Len(replies) :
            /\ ~skipped(replies[i])
            /\ \A j \in from..(i - 1) : skipped(replies[j])
    ELSE 0

maxRetries == 3

\* the handler after message from - 1 of the thread: the next user lookup, or
\* the first attempt to create the page
AfterThreadMessage(e, replies, from, loc) ==
    LET i == nextThreadMessage(replies, from)
    IN  IF i > 0
        THEN /\ Goto(e, "create:thread:users.info")
             /\ local' = [local EXCEPT ![e] = [loc EXCEPT !.msgIndex = i]]
        ELSE /\ Goto(e, "create:pages.create")
             /\ local' = [local EXCEPT ![e] = [loc EXCEPT !.msgIndex = 0, !.attempt = 1]]

Fail(e, error, catchLabel) ==
    /\ local' = [local EXCEPT ![e].error = error]
    /\ Goto(e, catchLabel)

\* CreateReplies if a fetch that throws were tried again, up to maxRetries times
CreateReplies_Retry(e) ==
    /\ pc[e] = "create:conversations.replies"
    /\ \/ /\ local' = [local EXCEPT ![e].replies = mention[e].thread]
          /\ Log(e, "conversations.replies", threadTs(e), TRUE)
          /\ Goto(e, "create:users.info")
       \/ /\ Log(e, "conversations.replies", threadTs(e), FALSE)
          /\ IF Len(calls[e]) + 1 < maxRetries
             THEN UNCHANGED <<pc, local>>
             ELSE Fail(e, SlackError, "create:catch:postMessage")
    /\ UNCHANGED <<inputText, parsedCommand, mention, caseSensitive,
                   pages, editOrder, messages>>

\* CreateReplies if a thread that cannot be read were saved all the same, as a
\* page without description
CreateReplies_SavesAnyway(e) ==
    /\ pc[e] = "create:conversations.replies"
    /\ \/ /\ local' = [local EXCEPT ![e].replies = mention[e].thread]
          /\ Log(e, "conversations.replies", threadTs(e), TRUE)
          /\ Goto(e, "create:users.info")
       \/ /\ Log(e, "conversations.replies", threadTs(e), FALSE)
          /\ local' = [local EXCEPT ![e].attempt = 1]
          /\ Goto(e, "create:pages.create")
    /\ UNCHANGED <<inputText, parsedCommand, mention, caseSensitive,
                   pages, editOrder, messages>>

\* const replies = await client.conversations.replies({channel, ts: threadTs})
CreateReplies(e) ==
    /\ pc[e] = "create:conversations.replies"
    /\ \/ /\ local' = [local EXCEPT ![e].replies = mention[e].thread]
          /\ Log(e, "conversations.replies", threadTs(e), TRUE)
          /\ Goto(e, "create:users.info")
       \/ /\ Log(e, "conversations.replies", threadTs(e), TRUE)
          /\ Fail(e, Error("No messages found in thread", Undefined),
                  "create:catch:postMessage")
       \/ /\ Log(e, "conversations.replies", threadTs(e), FALSE)
          /\ Fail(e, SlackError, "create:catch:postMessage")
    /\ UNCHANGED <<inputText, parsedCommand, mention, caseSensitive,
                   pages, editOrder, messages>>

\* const requesterInfo = await client.users.info({user: originalMessage.user})
CreateRequesterInfo(e) ==
    /\ pc[e] = "create:users.info"
    /\ \/ /\ local' = [local EXCEPT ![e].requesterInfo = Users[local[e].replies[1].user]]
          /\ Log(e, "users.info", local[e].replies[1].user, TRUE)
          /\ Goto(e, "create:conversations.info")
       \/ /\ Log(e, "users.info", local[e].replies[1].user, FALSE)
          /\ Fail(e, SlackError, "create:catch:postMessage")
    /\ UNCHANGED <<inputText, parsedCommand, mention, caseSensitive,
                   pages, editOrder, messages>>

\* const channelInfo = await client.conversations.info({channel}); then the
\* title and the head of the description, up to the next await
CreateChannelInfo(e) ==
    /\ pc[e] = "create:conversations.info"
    /\ \/ LET originalMessage == local[e].replies[1]
              loc == [local[e] EXCEPT
                        !.channelInfo = "general",
                        !.requestTitle =
                            RequestTitles[mention[e].input][local[e].command.requestType],
                        !.fullDescription =
                            "*Original request by " \o local[e].requesterInfo \o ":*\n"
                            \o originalMessage.text \o "\n\n"
                            \o (IF Len(local[e].replies) > 1
                                THEN "*Additional context from thread:*\n" ELSE "")]
          IN  /\ Log(e, "conversations.info", mention[e].channel, TRUE)
              /\ AfterThreadMessage(e, local[e].replies, 2, loc)
       \/ /\ Log(e, "conversations.info", mention[e].channel, FALSE)
          /\ Fail(e, SlackError, "create:catch:postMessage")
    /\ UNCHANGED <<inputText, parsedCommand, mention, caseSensitive,
                   pages, editOrder, messages>>

\* CreateThreadUserInfo without a try of its own, as in the earlier bot: a
\* lookup that throws is caught by the catch of the handler
CreateThreadUserInfo_Aborts(e) ==
    /\ pc[e] = "create:thread:users.info"
    /\ LET msg == local[e].replies[local[e].msgIndex]
       IN  \/ /\ Log(e, "users.info", msg.user, TRUE)
              /\ AfterThreadMessage(e, local[e].replies, local[e].msgIndex + 1,
                    [local[e] EXCEPT !.fullDescription =
                        @ \o "- " \o Users[msg.user] \o ": " \o msg.text \o "\n"])
           \/ /\ Log(e, "users.info", msg.user, FALSE)
              /\ Fail(e, SlackError, "create:catch:postMessage")
    /\ UNCHANGED <<inputText, parsedCommand, mention, caseSensitive,
                   pages, editOrder, messages>>

\* const userInfo = await client.users.info({user: msg.user}) in its own try
CreateThreadUserInfo(e) ==
    /\ pc[e] = "create:thread:users.info"
    /\ LET msg == local[e].replies[local[e].msgIndex]
       IN  \E ok \in BOOLEAN :
              /\ Log(e, "users.info", msg.user, ok)
              /\ AfterThreadMessage(e, local[e].replies, local[e].msgIndex + 1,
                    [local[e] EXCEPT !.fullDescription =
                        @ \o "- " \o (IF ok THEN Users[msg.user] ELSE "Unknown User")
                          \o ": " \o msg.text \o "\n"])
    /\ UNCHANGED <<inputText, parsedCommand, mention, caseSensitive,
                   pages, editOrder, messages>>

\* newPage if every request were saved in the database of the features
newPage_FeatureDatabase(e) ==
    Page(databaseIds.feature,
         local[e].requestTitle,
         initialStatus(local[e].command.requestType),
         slackUrl(mention[e].channel, threadTs(e)),
         Now,
         <<local[e].fullDescription,
           "Requested in #" \o orElse(local[e].channelInfo, mention[e].channel)>>)

\* the page notion.pages.create is given
newPage(e) ==
    Page(databaseIds[local[e].command.requestType],
         local[e].requestTitle,
         initialStatus(local[e].command.requestType),
         slackUrl(mention[e].channel, threadTs(e)),
         Now,
         <<local[e].fullDescription,
           "Requested in #" \o orElse(local[e].channelInfo, mention[e].channel)>>)

\* the pages after notion.pages.create
pagesCreate(page) == Append(pages, page)

\* AfterFailedAttempt if the loop gave up one attempt later
AfterFailedAttempt_OneMore(attempt) ==
    IF attempt > maxRetries THEN "create:catch:postMessage" ELSE "create:setTimeout"

\* where the retry loop goes after an attempt failed: if (attempt >= maxRetries) throw error
AfterFailedAttempt(attempt) ==
    IF attempt >= maxRetries THEN "create:catch:postMessage" ELSE "create:setTimeout"

\* await notion.pages.create(...) in the retry loop; a call that times out may
\* or may not have been applied by Notion
CreatePagesCreate(e) ==
    /\ pc[e] = "create:pages.create"
    /\ \/ /\ pages' = pagesCreate(newPage(e))
          /\ editOrder' = Touch(Len(pages) + 1)
          /\ Log(e, "pages.create", newPage(e), TRUE)
          /\ Goto(e, "create:postMessage")
          /\ UNCHANGED local
       \/ \E error \in NotionErrors, applied \in BOOLEAN :
             /\ applied => error = NotionTimeout
             /\ pages' = IF applied THEN pagesCreate(newPage(e)) ELSE pages
             /\ editOrder' = IF applied THEN Touch(Len(pages) + 1) ELSE editOrder
             /\ calls' = [calls EXCEPT ![e] =
                           Append(@, Call("pages.create", newPage(e), FALSE, applied))]
             /\ Goto(e, AfterFailedAttempt(local[e].attempt))
             /\ local' = IF local[e].attempt >= maxRetries
                         THEN [local EXCEPT ![e].error = error]
                         ELSE local
    /\ UNCHANGED <<inputText, parsedCommand, mention, caseSensitive, messages>>

\* await new Promise(resolve => setTimeout(resolve, 1000)), then attempt++
CreateBackoff(e) ==
    /\ pc[e] = "create:setTimeout"
    /\ local' = [local EXCEPT ![e].attempt = @ + 1]
    /\ Goto(e, "create:pages.create")
    /\ UNCHANGED <<inputText, parsedCommand, mention, caseSensitive,
                   pages, editOrder, messages, calls>>

\* the confirmation, after the retry loop
CreateConfirm(e) ==
    Reply(e, "create:postMessage",
          CheckMark \o " " \o capitalize(local[e].command.requestType)
          \o " request saved to Notion database!",
          "create:catch:postMessage")

\* catch (error) of handleCreateCommand
CreateCatch(e) ==
    Reply(e, "create:catch:postMessage",
          CrossMark \o " Failed to save " \o local[e].command.requestType \o " request"
          \o errorDetail(local[e].error,
                         ": Database not found. Please check your configuration.", TRUE),
          "catch:postMessage")

(***************************************************************************)
(* The specification of the handlers                                       *)
(***************************************************************************)

Next ==
    \E e \in Events :
        \/ AppMention(e)
        \/ AppMentionCatch(e)
        \/ HandleHelpCommand(e)
        \/ StatusPostLoading(e)
        \/ StatusQuery(e)
        \/ StatusResponseLate(e)
        \/ StatusUpdate(e)
        \/ StatusCatch(e)
        \/ UpdateInvalidStatus(e)
        \/ UpdateQuery(e)
        \/ UpdateNotFound(e)
        \/ UpdateMultiple(e)
        \/ UpdatePagesUpdate(e)
        \/ UpdateConfirm(e)
        \/ UpdateCatch(e)
        \/ CreateReplies(e)
        \/ CreateRequesterInfo(e)
        \/ CreateChannelInfo(e)
        \/ CreateThreadUserInfo(e)
        \/ CreatePagesCreate(e)
        \/ CreateBackoff(e)
        \/ CreateConfirm(e)
        \/ CreateCatch(e)

Spec == Init /\ [][Next]_vars

\* the event loop runs a continuation that is ready: a call of Slack returns
\* or throws, and a call of Notion returns, throws or times out after
\* NOTION_TIMEOUT_MS, so a handler that is not done takes its next step
SpecLive == Spec /\ WF_vars(Next)

(***************************************************************************)
(* Two status commands handled concurrently                                *)
(***************************************************************************)

\* both events are status commands; Title filters are not used, so the case
\* sensitivity of Notion plays no part; a seeded page in the completed status
\* of its database may instead still be open
InitStatusTwice ==
    /\ inputText = ""
    /\ parsedCommand = NoCommand
    /\ mention \in {[e \in Events |-> MentionEvent(e, IF e = 1 THEN i ELSE j)] :
                        i, j \in {k \in 1..Len(MentionInputs) :
                                     ParsedInputs[k].type = "status"}}
    /\ caseSensitive = FALSE
    /\ pc = [e \in Events |-> "app_mention"]
    /\ local = [e \in Events |-> Locals]
    /\ \E n \in 0..MaxSeedPages :
       \E open \in SUBSET {i \in 1..n : SeedPages[i].Status \in {completedStatus("bd"),
                                                                completedStatus("feature")}} :
          /\ pages = [i \in 1..n |->
                         IF i \in open
                         THEN [SeedPages[i] EXCEPT !.Status =
                                 IF @ = completedStatus("bd")
                                 THEN validStatuses.bd[1]
                                 ELSE validStatuses.feature[1]]
                         ELSE SeedPages[i]]
          /\ editOrder = [i \in 1..n |-> n + 1 - i]
    /\ messages = [e \in Events |-> <<>>]
    /\ calls = [e \in Events |-> <<>>]

NextStatusTwice ==
    \E e \in Events :
        \/ AppMention(e)
        \/ AppMentionCatch(e)
        \/ StatusPostLoading(e)
        \/ StatusQuery(e)
        \/ StatusResponseLate(e)
        \/ StatusUpdate(e)
        \/ StatusCatch(e)

SpecStatusTwice == InitStatusTwice /\ [][NextStatusTwice]_vars

(***************************************************************************)
(* Two mentions that change the store, handled concurrently                *)
(***************************************************************************)

\* the texts of the mentions handled concurrently: updates of the feature
\* requests, among them an invalid one, and the saving of a thread
ConcurrentTexts ==
    {"update foo to Completed", "update Foo widget to in progress",
     "update Foo to rejected", "update foo to Blorp", "<@U0BOT> save this"}

\* both events are handled at once, each step of one between the steps of
\* the other; the first is an update, the second an update or the saving of
\* a thread; Notion matches titles without regard to letter case
InitConcurrent ==
    /\ inputText = ""
    /\ parsedCommand = NoCommand
    /\ mention \in {[e \in Events |-> MentionEvent(e, IF e = 1 THEN i ELSE j)] :
                        i \in {k \in 1..Len(MentionInputs) :
                                  /\ MentionInputs[k].text \in ConcurrentTexts
                                  /\ ParsedInputs[k].type = "update"},
                        j \in {k \in 1..Len(MentionInputs) :
                                  MentionInputs[k].text \in ConcurrentTexts}}
    /\ caseSensitive = FALSE
    /\ pc = [e \in Events |-> "app_mention"]
    /\ local = [e \in Events |-> Locals]
    /\ \E n \in 0..MaxSeedPages :
          /\ pages = SubSeq(SeedPages, 1, n)
          /\ editOrder = [i \in 1..n |-> n + 1 - i]
    /\ messages = [e \in Events |-> <<>>]
    /\ calls = [e \in Events |-> <<>>]

NextConcurrent ==
    \E e \in Events :
        \/ AppMention(e)
        \/ AppMentionCatch(e)
        \/ UpdateInvalidStatus(e)
        \/ UpdateQuery(e)
        \/ UpdateNotFound(e)
        \/ UpdateMultiple(e)
        \/ UpdatePagesUpdate(e)
        \/ UpdateConfirm(e)
        \/ UpdateCatch(e)
        \/ CreateReplies(e)
        \/ CreateRequesterInfo(e)
        \/ CreateChannelInfo(e)
        \/ CreateThreadUserInfo(e)
        \/ CreatePagesCreate(e)
        \/ CreateBackoff(e)
        \/ CreateConfirm(e)
        \/ CreateCatch(e)

SpecConcurrent == InitConcurrent /\ [][NextConcurrent]_vars

(***************************************************************************)
(* Classification as a pure function: parseCommand applied to every text   *)
(* of at most MaxWords words of the vocabulary.                            *)
(***************************************************************************)

MaxWords == 3

Vocabulary ==
    <<"help", "HELP", "commands", "status", "all", "completed",
      "update", "updates", "to", "bd", "Business Development", "foo">>

RECURSIVE join(_)
join(words) ==
    IF Len(words) = 0 THEN ""
    ELSE IF Len(words) = 1 THEN words[1]
    ELSE words[1] \o " " \o join(Tail(words))

\* the texts of up to MaxWords words, and longer texts of interest
Texts ==
    UNION { { join([i \in 1..n |-> Vocabulary[w[i]]]) :
                w \in [1..n -> 1..Len(Vocabulary)] } : n \in 1..MaxWords }
    \cup {"update status page to Completed", "update the status of foo to Rejected",
          "update foo to In Progress", "status bd added to crm",
          "update bd acme to Added to CRM", "update \"foo\" to \"Completed\""}

TypeError == Command("TypeError", Undefined, Undefined, Undefined, Undefined)

InitParse ==
    /\ inputText \in Texts
    /\ parsedCommand = NoCommand
    /\ mention = [e \in Events |-> MentionEvent(e, 1)]
    /\ caseSensitive = FALSE
    /\ pc = [e \in Events |-> "done"]
    /\ local = [e \in Events |-> Locals]
    /\ pages = <<>>
    /\ editOrder = <<>>
    /\ messages = [e \in Events |-> <<>>]
    /\ calls = [e \in Events |-> <<>>]

\* const command = parseCommand(event.text), or the TypeError it throws
ParseStep ==
    /\ parsedCommand = NoCommand
    /\ parsedCommand' = IF parseCommandThrows(inputText) THEN TypeError
                        ELSE parseCommand(inputText)
    /\ UNCHANGED <<inputText, mention, caseSensitive, pc, local,
                   pages, editOrder, messages, calls>>

SpecParse == InitParse /\ [][ParseStep]_vars

\* C1: a text that contains "help", in any letter case, is classified as help,
\* whatever other keywords ("status", "update" with " to ", "bd") it contains.
HelpWins ==
    (parsedCommand # NoCommand /\ includes(toLowerCase(inputText), "help"))
        => parsedCommand.type = "help"

HelpWinsWitness ==
    /\ parsedCommand.type = "help"
    /\ includes(toLowerCase(inputText), "help")
    /\ includes(toLowerCase(inputText), "status")
    /\ includes(toLowerCase(inputText), "bd")

\* C2: the request type is bd when the lower-cased text contains "bd" or
\* "business development" and feature otherwise, and every status, update and
\* create command carries it.
CategoryResolved ==
    LET lower == toLowerCase(inputText)
        expected == IF includes(lower, "bd") \/ includes(lower, "business development")
                    THEN "bd" ELSE "feature"
    IN  /\ getRequestType(inputText) = expected
        /\ parsedCommand.type \in {"status", "update", "create"}
               => parsedCommand.requestType = expected

CategoryResolvedWitness ==
    /\ parsedCommand.type \in {"status", "update", "create"}
    /\ parsedCommand.requestType = "bd"
    /\ ~includes(toLowerCase(inputText), "bd")

(***************************************************************************)
(* FeatureBot (src/unnamed/part_001): the earlier program, with one        *)
(* database and a single handler of app_mention whose catch sends the      *)
(* error reply outside any try                                             *)
(***************************************************************************)

\* const databaseId = process.env.NOTION_DATABASE_ID
databaseId == "db_feature"

\* const validStatuses of FeatureBot
featureBotStatuses == <<"New", "In Progress", "Pending Review", "Completed", "Rejected">>

\* "?([^"]+)"? matched at index i: the index where the group starts, 0 if no match
QuotedGroupStart(s, i) ==
    IF i + 1 <= Len(s) /\ charAt(s, i) = "\"" /\ charAt(s, i + 1) # "\"" THEN i + 1
    ELSE IF i <= Len(s) /\ charAt(s, i) # "\"" THEN i
    ELSE 0

\* the last index of the run of characters other than '"' that starts at i
NonQuoteRunEnd(s, i) ==
    CHOOSE j \in i..Len(s) :
        /\ \A k \in i..j : charAt(s, k) # "\""
        /\ (j = Len(s) \/ charAt(s, j + 1) = "\"")

\* the index where the second group of updateRegex starts when \s+to\s+ matched
\* from index i to index r (r = 0: no match), 0 if the group cannot start; the
\* second \s+ gives back its last character when nothing else can start the group
UpdateTail(s, i, r) ==
    IF r = 0 THEN 0
    ELSE IF QuotedGroupStart(s, r + 1) > 0 THEN QuotedGroupStart(s, r + 1)
    ELSE IF r > WhitespaceRunEnd(s, i) + 3 THEN r
    ELSE 0

\* the greedy choice of [^"]+: of the ends h of the first group with the start
\* tails[h] of the second group (0: the rest does not match), the last one that
\* lets the rest match, as <<h, tails[h]>>; <<>> if there is none
LongestGroup(tails) ==
    IF \A h \in DOMAIN tails : tails[h] = 0 THEN <<>>
    ELSE LET last == CHOOSE h \in DOMAIN tails :
                        /\ tails[h] > 0
                        /\ \A k \in DOMAIN tails : tails[k] > 0 => k <= h
         IN  <<last, tails[last]>>

\* ([^"]+)"?\s+to\s+"?([^"]+)"? with the first group starting at g: <<the last
\* index of the first group, the index where the second group starts>>, <<>>
\* if no match
UpdateGroupsAt(s, g) ==
    IF g > Len(s) \/ charAt(s, g) = "\"" THEN <<>>
    ELSE LongestGroup([h \in g..NonQuoteRunEnd(s, g) |->
                          IF h + 1 <= Len(s) /\ charAt(s, h + 1) = "\""
                          THEN UpdateTail(s, h + 2, MatchToAt(s, h + 2))
                          ELSE UpdateTail(s, h + 1, MatchToAt(s, h + 1))])

\* the greedy choice of the \s+ after "update": of the indexes a where it may
\* stop, with groups[a] the groups matched from there (<<>>: none), the last
\* one that lets the rest match, as <<start of group 1, end of group 1, start
\* of group 2>>; <<>> if there is none
LongestSpace(s, groups) ==
    IF \A a \in DOMAIN groups : groups[a] = <<>> THEN <<>>
    ELSE LET last == CHOOSE a \in DOMAIN groups :
                        /\ groups[a] # <<>>
                        /\ \A k \in DOMAIN groups : groups[k] # <<>> => k <= a
         IN  <<IF charAt(s, last) = "\"" THEN last + 1 ELSE last>> \o groups[last]

\* updateRegex with update\s+ matched from index p to index r (r = 0: no
\* match): <<start of group 1, end of group 1, start of group 2>>, <<>> if no match
UpdateRegexFrom(s, p, r) ==
    IF r = 0 THEN <<>>
    ELSE LongestSpace(s, [a \in (p + 7)..(r + 1) |->
                             UpdateGroupsAt(s, IF a <= Len(s) /\ charAt(s, a) = "\""
                                               THEN a + 1 ELSE a)])

\* {featureQuery, newStatus} of the leftmost match of updateRegex, found[p]
\* being its match at index p; NoCommand (null) if there is none
UpdateCommandOf(text, found) ==
    IF \A p \in DOMAIN found : found[p] = <<>> THEN NoCommand
    ELSE LET m == found[CHOOSE p \in DOMAIN found :
                            /\ found[p] # <<>>
                            /\ \A q \in 1..(p - 1) : found[q] = <<>>]
         IN  Command("update", "feature", Undefined,
                     trim(SubSeq(text, m[1], m[2])),
                     trim(SubSeq(text, m[3], NonQuoteRunEnd(text, m[3]))))

\* parseUpdateCommand(text)
parseUpdateCommand(text) ==
    UpdateCommandOf(text, [p \in 1..Len(text) |->
                              UpdateRegexFrom(text, p, MatchUpdateAt(text, p))])

\* parseStatusCommand(text)
parseStatusCommand(text) ==
    \/ includes(toLowerCase(text), "status")
    \/ includes(toLowerCase(text), "list")
    \/ includes(toLowerCase(text), "features")

\* searchText.match(/^[a-f0-9]{32}$/)
\* isPageId if hexadecimal text of any length were taken for an identifier
isPageId_AnyLength(searchText) ==
    \A i \in 1..Len(searchText) :
        charAt(searchText, i) \in {"a", "b", "c", "d", "e", "f", "0", "1", "2", "3",
                                   "4", "5", "6", "7", "8", "9"}

isPageId(searchText) ==
    Len(searchText) = 32
    /\ \A i \in 1..Len(searchText) :
           charAt(searchText, i) \in {"a", "b", "c", "d", "e", "f", "0", "1", "2", "3",
                                      "4", "5", "6", "7", "8", "9"}

\* page.id of the page at index id of the store
pageUuid(id) ==
    "00000000-0000-0000-0000-00000000000"
    \o <<"1", "2", "3", "4", "5", "6", "7", "8", "9">>[id]

\* s.replace(/-/g, '')
RECURSIVE removeDashes(_)
removeDashes(s) ==
    IF Len(s) = 0 THEN ""
    ELSE (IF charAt(s, 1) = "-" THEN "" ELSE charAt(s, 1))
         \o removeDashes(SubSeq(s, 2, Len(s)))

\* formatFeaturesForSlack(pages)
RECURSIVE featureLines(_)
featureLines(results) ==
    IF Len(results) = 0 THEN ""
    ELSE Bullet \o " *" \o orElse(results[1].Title, "Untitled") \o "* - "
         \o orElse(results[1].Status, "Unknown")
         \o " (ID: " \o removeDashes(pageUuid(results[1].id)) \o ")\n"
         \o featureLines(Tail(results))

formatFeaturesForSlack(results) ==
    IF Len(results) = 0 THEN "No features found."
    ELSE "*Feature Requests Status:*\n\n" \o featureLines(results)

\* the mention events FeatureBot may be given
FeatureBotInputs ==
    <<[text |-> "update \"Foo widget\" to \"in progress\"", thread |-> <<>>],
      [text |-> "update foo to Completed", thread |-> <<>>],
      [text |-> "update Foo to rejected", thread |-> <<>>],
      [text |-> "update foo to Blorp", thread |-> <<>>],
      [text |-> "update 00000000000000000000000000000001 to Completed", thread |-> <<>>],
      [text |-> "list features", thread |-> <<>>],
      [text |-> "update 0badcafe to Completed", thread |-> <<>>],
      [text |-> "<@U0BOT> save this",
       thread |-> <<Message("U1", "Dark mode\nfor the dashboard", "1700000000.000100"),
                    Message("U2", "@featurebot save this", "1700000000.000200"),
                    Message("U2", "needed by Q3", "1700000000.000300")>>]>>

\* the command of the handler: if (updateCommand) ... if (parseStatusCommand(
\* messageText)) ... else the thread is saved
FeatureBotCommand(text, updateCommand) ==
    IF updateCommand # NoCommand THEN updateCommand
    ELSE IF parseStatusCommand(text)
    THEN Command("status", "feature", Undefined, Undefined, Undefined)
    ELSE Command("create", "feature", Undefined, Undefined, Undefined)

\* the command of each input
FeatureBotParsed ==
    [i \in 1..Len(FeatureBotInputs) |->
        FeatureBotCommand(FeatureBotInputs[i].text,
                          parseUpdateCommand(FeatureBotInputs[i].text))]

InitFeatureBot ==
    /\ inputText = ""
    /\ parsedCommand = NoCommand
    /\ mention \in {[e \in Events |-> EventOf(FeatureBotInputs[IF e = 1 THEN i ELSE 1],
                                              e, IF e = 1 THEN i ELSE 1)] :
                        i \in 1..Len(FeatureBotInputs)}
    /\ caseSensitive \in BOOLEAN
    /\ pc = [e \in Events |-> IF e = 1 THEN "fb:app_mention" ELSE "idle"]
    /\ local = [e \in Events |-> Locals]
    /\ \E n \in 0..MaxSeedPages :
          /\ pages = SubSeq(SeedPages, 1, n)
          /\ editOrder = [i \in 1..n |-> n + 1 - i]
    /\ messages = [e \in Events |-> <<>>]
    /\ calls = [e \in Events |-> <<>>]

\* validStatuses.find(status => status.toLowerCase() === newStatus.toLowerCase())
matchingStatus(newStatus) ==
    IF \E k \in 1..Len(featureBotStatuses) :
           toLowerCase(featureBotStatuses[k]) = toLowerCase(newStatus)
    THEN featureBotStatuses[CHOOSE k \in 1..Len(featureBotStatuses) :
             /\ toLowerCase(featureBotStatuses[k]) = toLowerCase(newStatus)
             /\ \A j \in 1..(k - 1) :
                    toLowerCase(featureBotStatuses[j]) # toLowerCase(newStatus)]
    ELSE Undefined

\* the handler from its start to its first await
FeatureBotMention(e) ==
    /\ pc[e] = "fb:app_mention"
    /\ LET cmd == FeatureBotParsed[mention[e].input]
       IN  /\ local' = [local EXCEPT
                           ![e].command = cmd,
                           ![e].exactStatusMatch =
                               IF cmd.type = "update" THEN matchingStatus(cmd.newStatus)
                               ELSE Undefined]
           /\ Goto(e, CASE cmd.type = "update" ->
                              IF matchingStatus(cmd.newStatus) = Undefined
                              THEN "fb:invalid:postMessage"
                              ELSE "fb:databases.query"
                        [] cmd.type = "status" -> "fb:status:databases.query"
                        [] OTHER -> "fb:conversations.replies")
    /\ UNCHANGED <<inputText, parsedCommand, mention, caseSensitive,
                   pages, editOrder, messages, calls>>

FeatureBotInvalidStatus(e) ==
    Reply(e, "fb:invalid:postMessage",
        CrossMark \o " Invalid status: \"" \o local[e].command.newStatus
        \o "\". Valid statuses are: " \o joinWith(featureBotStatuses, ", "),
          "fb:catch:postMessage")

\* where the handler goes with the features findFeatureInNotion returned
AfterFindFeature(features) ==
    IF Len(features) = 0 THEN "fb:notfound:postMessage"
    ELSE IF Len(features) > 1 THEN "fb:multiple:postMessage"
    ELSE "fb:pages.update"

\* findFeatureInNotion: the query by title
FindFeatureQuery(e) ==
    /\ pc[e] = "fb:databases.query"
    /\ LET queryOptions == QueryOptions(databaseId, "Title contains",
                                        local[e].command.featureQuery, 5)
           results == databasesQuery(queryOptions)
       IN  \/ /\ local' = [local EXCEPT ![e].response = results]
              /\ Log(e, "databases.query", queryOptions, TRUE)
              /\ Goto(e, IF Len(results) = 0 /\ isPageId(local[e].command.featureQuery)
                         THEN "fb:pages.retrieve"
                         ELSE AfterFindFeature(results))
           \/ \E error \in NotionErrors :
                 /\ local' = [local EXCEPT ![e].error = error]
                 /\ Log(e, "databases.query", queryOptions, FALSE)
                 /\ Goto(e, "fb:catch:postMessage")
    /\ UNCHANGED <<inputText, parsedCommand, mention, caseSensitive,
                   pages, editOrder, messages>>

\* findFeatureInNotion: notion.pages.retrieve({page_id: searchText}) in its own
\* try, whose catch returns no feature
FindFeatureRetrieve(e) ==
    /\ pc[e] = "fb:pages.retrieve"
    /\ LET searchText == local[e].command.featureQuery
       IN  \/ \E id \in 1..Len(pages) :
                 /\ removeDashes(pageUuid(id)) = searchText
                 /\ local' = [local EXCEPT ![e].response = Snapshot(<<id>>)]
                 /\ Log(e, "pages.retrieve", searchText, TRUE)
                 /\ Goto(e, AfterFindFeature(Snapshot(<<id>>)))
           \/ /\ local' = [local EXCEPT ![e].response = <<>>]
              /\ Log(e, "pages.retrieve", searchText, FALSE)
              /\ Goto(e, AfterFindFeature(<<>>))
    /\ UNCHANGED <<inputText, parsedCommand, mention, caseSensitive,
                   pages, editOrder, messages>>

FeatureBotNotFound(e) ==
    Reply(e, "fb:notfound:postMessage",
        CrossMark \o " No feature found matching \"" \o local[e].command.featureQuery \o "\"",
          "fb:catch:postMessage")

FeatureBotMultiple(e) ==
    Reply(e, "fb:multiple:postMessage",
        "Found multiple matches for \"" \o local[e].command.featureQuery
        \o "\". Please be more specific or use the ID:\n\n"
        \o formatFeaturesForSlack(local[e].response),
          "fb:catch:postMessage")

\* await notion.pages.update({page_id: feature.id, ... name: matchingStatus})
FeatureBotPagesUpdate(e) ==
    /\ pc[e] = "fb:pages.update"
    /\ LET feature == local[e].response[1]
           arg == [page_id |-> feature.id, Status |-> local[e].exactStatusMatch]
       IN  \/ /\ pages' = pagesUpdate(feature.id, local[e].exactStatusMatch)
              /\ editOrder' = Touch(feature.id)
              /\ Log(e, "pages.update", arg, TRUE)
              /\ Goto(e, "fb:update:postMessage")
              /\ UNCHANGED local
           \/ \E error \in NotionErrors, applied \in BOOLEAN :
                 /\ applied => error = NotionTimeout
                 /\ pages' = IF applied
                             THEN pagesUpdate(feature.id, local[e].exactStatusMatch)
                             ELSE pages
                 /\ editOrder' = IF applied THEN Touch(feature.id) ELSE editOrder
                 /\ calls' = [calls EXCEPT ![e] =
                               Append(@, Call("pages.update", arg, FALSE, applied))]
                 /\ local' = [local EXCEPT ![e].error = error]
                 /\ Goto(e, "fb:catch:postMessage")
    /\ UNCHANGED <<inputText, parsedCommand, mention, caseSensitive, messages>>

FeatureBotUpdateConfirm(e) ==
    Reply(e, "fb:update:postMessage",
        updatedMessage(orElse(local[e].response[1].Title, "Untitled"),
                       orElse(local[e].response[1].Status, "Unknown"),
                       local[e].exactStatusMatch),
          "fb:catch:postMessage")

\* the status check: the first 10 pages by last edited time, no filter
FeatureBotStatusQuery(e) ==
    /\ pc[e] = "fb:status:databases.query"
    /\ LET queryOptions == QueryOptions(databaseId, "none", Undefined, 10)
       IN  \/ /\ local' = [local EXCEPT ![e].response = databasesQuery(queryOptions)]
              /\ Log(e, "databases.query", queryOptions, TRUE)
              /\ Goto(e, "fb:status:postMessage")
           \/ \E error \in NotionErrors :
                 /\ local' = [local EXCEPT ![e].error = error]
                 /\ Log(e, "databases.query", queryOptions, FALSE)
                 /\ Goto(e, "fb:catch:postMessage")
    /\ UNCHANGED <<inputText, parsedCommand, mention, caseSensitive,
                   pages, editOrder, messages>>

FeatureBotStatusReply(e) ==
    Reply(e, "fb:status:postMessage", formatFeaturesForSlack(local[e].response),
          "fb:catch:postMessage")

\* the index of the first message of replies.messages, from index from on,
\* whose author is looked up: if (!msg.text.includes('@featurebot')); 0 if
\* there is none
nextFeatureBotMessage(replies, from) ==
    IF \E i \in from..Len(replies) : ~includes(replies[i].text, "@featurebot")
    THEN CHOOSE i \in from..Len(replies) :
            /\ ~includes(replies[i].text, "@featurebot")
            /\ \A j \in from..(i - 1) : includes(replies[j].text, "@featurebot")
    ELSE 0

\* the handler after message from - 1 of the thread: the next user lookup, or
\* the creation of the page
AfterFeatureBotMessage(e, replies, from, loc) ==
    LET i == nextFeatureBotMessage(replies, from)
    IN  /\ Goto(e, IF i > 0 THEN "fb:thread:users.info" ELSE "fb:pages.create")
        /\ local' = [local EXCEPT ![e] = [loc EXCEPT !.msgIndex = i]]

\* const replies = await client.conversations.replies(...); originalMessage.user
\* of a thread without messages is a TypeError
FeatureBotReplies(e) ==
    /\ pc[e] = "fb:conversations.replies"
    /\ \/ /\ local' = [local EXCEPT ![e].replies = mention[e].thread]
          /\ Log(e, "conversations.replies", threadTs(e), TRUE)
          /\ Goto(e, "fb:users.info")
       \/ /\ Log(e, "conversations.replies", threadTs(e), TRUE)
          /\ Fail(e, Error("Cannot read properties of undefined (reading 'user')",
                           Undefined),
                  "fb:catch:postMessage")
       \/ /\ Log(e, "conversations.replies", threadTs(e), FALSE)
          /\ Fail(e, SlackError, "fb:catch:postMessage")
    /\ UNCHANGED <<inputText, parsedCommand, mention, caseSensitive,
                   pages, editOrder, messages>>

FeatureBotRequesterInfo(e) ==
    /\ pc[e] = "fb:users.info"
    /\ \/ /\ local' = [local EXCEPT ![e].requesterInfo = Users[local[e].replies[1].user]]
          /\ Log(e, "users.info", local[e].replies[1].user, TRUE)
          /\ Goto(e, "fb:conversations.info")
       \/ /\ Log(e, "users.info", local[e].replies[1].user, FALSE)
          /\ Fail(e, SlackError, "fb:catch:postMessage")
    /\ UNCHANGED <<inputText, parsedCommand, mention, caseSensitive,
                   pages, editOrder, messages>>

\* let featureTitle = originalMessage.text.split('\n')[0].substring(0, 80), labelled
featureTitle(originalText) ==
    LET title == substring(firstLine(originalText), TitleLength)
    IN  IF ~includes(toLowerCase(title), "feature")
        THEN "Feature request: " \o title
        ELSE title

\* const channelInfo = await client.conversations.info({channel}); then the
\* title and the head of the description, up to the next await
FeatureBotChannelInfo(e) ==
    /\ pc[e] = "fb:conversations.info"
    /\ \/ LET originalMessage == local[e].replies[1]
              loc == [local[e] EXCEPT
                        !.channelInfo = "general",
                        !.requestTitle = featureTitle(originalMessage.text),
                        !.fullDescription =
                            "*Original request by " \o local[e].requesterInfo \o ":*\n"
                            \o originalMessage.text \o "\n\n"
                            \o (IF Len(local[e].replies) > 1
                                THEN "*Additional context from thread:*\n" ELSE "")]
          IN  /\ Log(e, "conversations.info", mention[e].channel, TRUE)
              /\ AfterFeatureBotMessage(e, local[e].replies, 2, loc)
       \/ /\ Log(e, "conversations.info", mention[e].channel, FALSE)
          /\ Fail(e, SlackError, "fb:catch:postMessage")
    /\ UNCHANGED <<inputText, parsedCommand, mention, caseSensitive,
                   pages, editOrder, messages>>

\* const userInfo = await client.users.info({user: msg.user}), inside the try
\* of the handler only
FeatureBotThreadUserInfo(e) ==
    /\ pc[e] = "fb:thread:users.info"
    /\ LET msg == local[e].replies[local[e].msgIndex]
       IN  \/ /\ Log(e, "users.info", msg.user, TRUE)
              /\ AfterFeatureBotMessage(e, local[e].replies, local[e].msgIndex + 1,
                    [local[e] EXCEPT !.fullDescription =
                        @ \o "- " \o Users[msg.user] \o ": " \o msg.text \o "\n"])
           \/ /\ Log(e, "users.info", msg.user, FALSE)
              /\ Fail(e, SlackError, "fb:catch:postMessage")
    /\ UNCHANGED <<inputText, parsedCommand, mention, caseSensitive,
                   pages, editOrder, messages>>

\* new Date(parseInt(threadTs) * 1000).toLocaleString(): parseInt keeps the
\* digits before the "."; the text depends on the locale of the host
toLocaleString(ts) ==
    "<" \o (IF includes(ts, ".")
            THEN SubSeq(ts, 1, (CHOOSE i \in 1..Len(ts) :
                                   /\ charAt(ts, i) = "."
                                   /\ \A j \in 1..(i - 1) : charAt(ts, j) # ".") - 1)
            ELSE ts)
    \o "000 ms in the locale of the host>"

\* the page FeatureBot gives notion.pages.create: no "Date Created" property
featurePage(e) ==
    Page(databaseId,
         local[e].requestTitle,
         "New",
         slackUrl(mention[e].channel, threadTs(e)),
         Undefined,
         <<local[e].fullDescription,
           "Requested in #" \o local[e].channelInfo \o " on "
           \o toLocaleString(threadTs(e))>>)

\* const newPage = await notion.pages.create(...), tried once
FeatureBotPagesCreate(e) ==
    /\ pc[e] = "fb:pages.create"
    /\ \/ /\ pages' = pagesCreate(featurePage(e))
          /\ editOrder' = Touch(Len(pages) + 1)
          /\ Log(e, "pages.create", featurePage(e), TRUE)
          /\ Goto(e, "fb:create:postMessage")
          /\ local' = [local EXCEPT ![e].response =
                          <<[id |-> Len(pages) + 1, Title |-> featurePage(e).Title,
                             Status |-> featurePage(e).Status]>>]
       \/ \E error \in NotionErrors, applied \in BOOLEAN :
             /\ applied => error = NotionTimeout
             /\ pages' = IF applied THEN pagesCreate(featurePage(e)) ELSE pages
             /\ editOrder' = IF applied THEN Touch(Len(pages) + 1) ELSE editOrder
             /\ calls' = [calls EXCEPT ![e] =
                           Append(@, Call("pages.create", featurePage(e), FALSE, applied))]
             /\ Fail(e, error, "fb:catch:postMessage")
    /\ UNCHANGED <<inputText, parsedCommand, mention, caseSensitive, messages>>

FeatureBotCreateConfirm(e) ==
    Reply(e, "fb:create:postMessage",
        CheckMark \o " Feature request saved to Notion database! (ID: "
        \o removeDashes(pageUuid(local[e].response[1].id)) \o ")",
          "fb:catch:postMessage")

\* catch (error) of the handler: await client.chat.postMessage(...) outside any
\* try, so that its failure rejects the promise of the handler
FeatureBotCatch(e) ==
    /\ pc[e] = "fb:catch:postMessage"
    /\ \E ok \in BOOLEAN :
          /\ LET txt == CrossMark \o " Failed to process request: "
                        \o local[e].error.message
             IN  /\ postMessage(e, txt, ok)
                 /\ Log(e, "chat.postMessage", txt, ok)
          /\ Goto(e, IF ok THEN "done" ELSE "thrown")
          /\ local' = IF ok THEN local ELSE [local EXCEPT ![e].error = SlackError]
    /\ UNCHANGED <<inputText, parsedCommand, mention, caseSensitive, pages, editOrder>>

NextFeatureBot ==
    \E e \in Events :
        \/ FeatureBotMention(e)
        \/ FeatureBotInvalidStatus(e)
        \/ FindFeatureQuery(e)
        \/ FindFeatureRetrieve(e)
        \/ FeatureBotNotFound(e)
        \/ FeatureBotMultiple(e)
        \/ FeatureBotPagesUpdate(e)
        \/ FeatureBotUpdateConfirm(e)
        \/ FeatureBotStatusQuery(e)
        \/ FeatureBotStatusReply(e)
        \/ FeatureBotReplies(e)
        \/ FeatureBotRequesterInfo(e)
        \/ FeatureBotChannelInfo(e)
        \/ FeatureBotThreadUserInfo(e)
        \/ FeatureBotPagesCreate(e)
        \/ FeatureBotCreateConfirm(e)
        \/ FeatureBotCatch(e)

SpecFeatureBot == InitFeatureBot /\ [][NextFeatureBot]_vars

(***************************************************************************)
(* Properties of the handling of one mention                               *)
(***************************************************************************)

NotionApis == {"databases.query", "pages.update", "pages.create", "pages.retrieve"}

\* the calls of an API issued while handling event e, in order
CallsOf(e, api) == SelectSeq(calls[e], LAMBDA c : c.api = api)

\* every chat.postMessage and chat.update issued while handling e returned
ChatCallsReturned(e) ==
    \A k \in 1..Len(calls[e]) :
        calls[e][k].api \in {"chat.postMessage", "chat.update"} => calls[e][k].ok

\* the set of the elements of a sequence
Range(seq) == {seq[k] : k \in 1..Len(seq)}

\* no status of the enumeration of requestType equals candidate, letter case aside
NoStatusEquals(requestType, candidate) ==
    \A status \in Range(validStatuses[requestType]) :
        toLowerCase(status) # toLowerCase(candidate)

\* the reply that names the candidate as invalid and lists the valid statuses
InvalidStatusReplies(e) ==
    {k \in 1..Len(calls[e]) :
        /\ calls[e][k].api = "chat.postMessage"
        /\ includes(calls[e][k].arg, "Invalid status: \"" \o local[e].command.newStatus \o "\"")
        /\ includes(calls[e][k].arg,
                    joinWith(validStatuses[local[e].command.requestType], ", "))}

\* C3: in the update path the invalid-status reply, which lists the valid
\* statuses of the category, is sent if and only if no status of the category
\* equals the candidate case-insensitively, and then no Notion call is issued.
InvalidStatusReported ==
    \A e \in Events :
        local[e].command.type = "update" =>
            LET noMatch == NoStatusEquals(local[e].command.requestType,
                                          local[e].command.newStatus)
            IN  /\ InvalidStatusReplies(e) # {} => noMatch
                /\ (noMatch /\ calls[e] # <<>>) => 1 \in InvalidStatusReplies(e)
                /\ noMatch => \A k \in 1..Len(calls[e]) : calls[e][k].api \notin NotionApis

InvalidStatusReportedWitness ==
    \E e \in Events :
        /\ mention[e].text = "update foo to Blorp"
        /\ pc[e] = "done"
        /\ InvalidStatusReplies(e) = {1}
        /\ Len(pages) > 0

\* the pages of the category of the update command of e whose title contains its query
MatchingIds(e) ==
    {id \in 1..Len(pages) :
        /\ pages[id].database_id = databaseIds[local[e].command.requestType]
        /\ TitleContains(pages[id].Title, local[e].command.featureQuery)}

\* the update command of e has a valid status and its query has returned
UpdateQueried(e) ==
    /\ local[e].command.type = "update"
    /\ Len(calls[e]) >= 1
    /\ calls[e][1].api = "databases.query" /\ calls[e][1].ok

Mutations(e) ==
    {k \in 1..Len(calls[e]) : calls[e][k].api \in {"pages.update", "pages.create"}}

\* C4: with a valid status, exactly one match is mutated; with two or more
\* matches no mutation is issued, every candidate keeps its status and the reply
\* lists the titles of the candidates; with no match the reply is 'not found'
\* and nothing is mutated.
UpdateNeverGuesses ==
    \A e \in Events :
        UpdateQueried(e) =>
            LET matching == MatchingIds(e)
            IN  /\ Cardinality(matching) = 1 =>
                    \/ pc[e] = "update:pages.update"
                    \/ /\ Len(calls[e]) >= 2
                       /\ calls[e][2].api = "pages.update"
                       /\ calls[e][2].arg.page_id \in matching
                       /\ Cardinality(Mutations(e)) = 1
                /\ Cardinality(matching) >= 2 =>
                    /\ Mutations(e) = {}
                    /\ \A id \in matching : pages[id].Status = SeedPages[id].Status
                    /\ \/ pc[e] = "update:multiple:postMessage"
                       \/ /\ Len(calls[e]) >= 2
                          /\ calls[e][2].api = "chat.postMessage"
                          /\ includes(calls[e][2].arg, "Found multiple matches")
                          /\ \A id \in matching : includes(calls[e][2].arg, pages[id].Title)
                /\ Cardinality(matching) = 0 =>
                    /\ Mutations(e) = {}
                    /\ pages = SubSeq(SeedPages, 1, Len(pages))
                    /\ \/ pc[e] = "update:notfound:postMessage"
                       \/ /\ Len(calls[e]) >= 2
                          /\ calls[e][2].api = "chat.postMessage"
                          /\ calls[e][2].arg =
                                CrossMark \o " No " \o local[e].command.requestType
                                \o " request found matching \""
                                \o local[e].command.featureQuery \o "\""

UpdateNeverGuessesWitness ==
    \E e \in Events :
        /\ UpdateQueried(e)
        /\ Cardinality(MatchingIds(e)) >= 2
        /\ pc[e] = "done"
        /\ Len(messages[e]) = 1
        /\ includes(messages[e][1].text, "Foo widget")
        /\ includes(messages[e][1].text, "Foo bar")

\* the status of the enumeration of requestType that equals candidate, letter case aside
CanonicalStatus(requestType, candidate) ==
    CHOOSE status \in Range(validStatuses[requestType]) :
        toLowerCase(status) = toLowerCase(candidate)

\* C5: on exactly one match the status written is the value of the enumeration,
\* in its own letter case, and the reply names the title of the page, its
\* previous status and the new status; "update foo to Completed" with the one
\* page "Foo widget" in status "New" ends with that page "Completed" and the
\* reply: Updated status of "Foo widget" from "New" to "Completed".
UpdateConfirmed ==
    \A e \in Events :
        /\ \A k \in 1..Len(calls[e]) :
              (calls[e][k].api = "pages.update" /\ calls[e][k].ok) =>
                  LET id == calls[e][k].arg.page_id
                      canonical == CanonicalStatus(local[e].command.requestType,
                                                   local[e].command.newStatus)
                  IN  /\ ~NoStatusEquals(local[e].command.requestType,
                                         local[e].command.newStatus)
                      /\ MatchingIds(e) = {id}
                      /\ calls[e][k].arg.Status = canonical
                      /\ pages[id].Status = canonical
                      /\ Len(calls[e]) > k =>
                            /\ calls[e][k + 1].api = "chat.postMessage"
                            /\ calls[e][k + 1].arg =
                                  CheckMark \o " Updated status of \"" \o SeedPages[id].Title
                                  \o "\" from \"" \o SeedPages[id].Status
                                  \o "\" to \"" \o canonical \o "\""
        /\ ( /\ mention[e].text = "update foo to Completed"
             /\ Len(pages) = 1
             /\ pc[e] = "done"
             /\ MatchingIds(e) = {1}
             /\ \A k \in 1..Len(calls[e]) : calls[e][k].ok )
           => /\ pages[1].Status = "Completed"
              /\ Len(messages[e]) = 1
              /\ messages[e][1].text =
                    CheckMark \o " Updated status of \"Foo widget\" from \"New\" to \"Completed\""

UpdateConfirmedWitness ==
    \E e \in Events :
        /\ mention[e].text = "update foo to Completed"
        /\ Len(pages) = 1
        /\ pages[1].Title = "Foo widget" /\ pages[1].Status = "Completed"
        /\ pc[e] = "done"
        /\ Len(messages[e]) = 1
        /\ messages[e][1].text =
              CheckMark \o " Updated status of \"Foo widget\" from \"New\" to \"Completed\""

\* C6: notion.pages.create is attempted at most 3 times for an event: a failed
\* attempt before the third is followed by another, the first attempt that
\* succeeds is the last, and after three failed attempts the handler sends an
\* error reply and no confirmation.
CreateRetriesBounded ==
    \A e \in Events :
        LET attempts == CallsOf(e, "pages.create")
            n == Len(attempts)
            retrying == pc[e] \in {"create:setTimeout", "create:pages.create"}
        IN  /\ n <= 3
            /\ \A i \in 1..(n - 1) : ~attempts[i].ok
            /\ (n > 0 /\ n < 3 /\ ~attempts[n].ok) => retrying
            /\ (n > 0 /\ attempts[n].ok) => ~retrying
            /\ (n = 3 /\ ~attempts[3].ok) =>
                  /\ ~retrying
                  /\ \A k \in 1..Len(calls[e]) :
                        calls[e][k].api = "chat.postMessage"
                            => ~includes(calls[e][k].arg, "saved to Notion")
                  /\ pc[e] # "create:catch:postMessage" =>
                        \E k \in 1..Len(calls[e]) :
                            /\ calls[e][k].api = "chat.postMessage"
                            /\ includes(calls[e][k].arg, "Failed to save")

CreateRetriesBoundedWitness ==
    \E e \in Events :
        /\ Len(CallsOf(e, "pages.create")) = 3
        /\ \A i \in 1..3 : ~CallsOf(e, "pages.create")[i].ok
        /\ pc[e] = "done"
        /\ Len(messages[e]) = 1
        /\ includes(messages[e][1].text, "Failed to save")

\* the pages.create calls follow: rejected, rejected, succeeded
CreateSucceededThird(e) ==
    LET attempts == CallsOf(e, "pages.create")
    IN  /\ Len(attempts) = 3
        /\ ~attempts[1].ok /\ ~attempts[1].applied
        /\ ~attempts[2].ok /\ ~attempts[2].applied
        /\ attempts[3].ok

\* every thread fetch issued so far behaved as: throws twice, then succeeds
FetchSucceedsThird(e) ==
    LET fetches == CallsOf(e, "conversations.replies")
    IN  /\ Len(fetches) >= 1
        /\ \A i \in 1..Len(fetches) : fetches[i].ok <=> i >= 3

CreatedOnceAndConfirmed(e) ==
    /\ Cardinality({k \in 1..Len(calls[e]) :
                       calls[e][k].api = "pages.create" /\ calls[e][k].applied}) = 1
    /\ \E k \in 1..Len(calls[e]) :
          /\ calls[e][k].api = "chat.postMessage"
          /\ includes(calls[e][k].arg, "saved to Notion")

\* C7 as stated: when the thread fetch throws on its first 2 attempts and
\* succeeds on the 3rd, the page is created exactly once and the confirmation
\* is sent.
ThreadFetchRetried ==
    \A e \in Events :
        (local[e].command.type = "create" /\ pc[e] = "done" /\ FetchSucceedsThird(e))
            => CreatedOnceAndConfirmed(e)

\* C7 as amended: a thread fetch that throws is not tried again, no page is
\* created and no confirmation is sent; when notion.pages.create is rejected on
\* the first 2 attempts and succeeds on the 3rd, the page is created exactly
\* once, it is in the store once, and the confirmation is sent.
CreateRetrySucceedsOnce ==
    \A e \in Events :
        /\ (\E k \in 1..Len(calls[e]) :
                calls[e][k].api = "conversations.replies" /\ ~calls[e][k].ok)
            => /\ Len(CallsOf(e, "conversations.replies")) = 1
               /\ CallsOf(e, "pages.create") = <<>>
               /\ \A k \in 1..Len(calls[e]) :
                     calls[e][k].api = "chat.postMessage"
                         => ~includes(calls[e][k].arg, "saved to Notion")
        /\ CreateSucceededThird(e) =>
              LET created == CallsOf(e, "pages.create")[3].arg
              IN  /\ Cardinality({id \in 1..Len(pages) : pages[id] = created}) = 1
                  /\ \/ pc[e] = "create:postMessage"
                     \/ CreatedOnceAndConfirmed(e)

CreateRetrySucceedsOnceWitness ==
    \E e \in Events :
        /\ CreateSucceededThird(e)
        /\ pc[e] = "done"
        /\ Len(messages[e]) = 1
        /\ includes(messages[e][1].text, "saved to Notion")

\* C8: when no chat call fails, every handled mention ends with exactly one
\* message of the bot in the thread: help, update and create post one message;
\* status posts one provisional message and overwrites it once, in place;
\* on success and on every Notion error alike.
ExactlyOneReply ==
    \A e \in Events :
        (pc[e] = "done" /\ ChatCallsReturned(e)) =>
            /\ Len(messages[e]) = 1
            /\ Len(CallsOf(e, "chat.postMessage")) = 1
            /\ messages[e][1].channel = mention[e].channel
            /\ messages[e][1].thread_ts = threadTs(e)
            /\ IF local[e].command.type = "status"
               THEN /\ messages[e][1].updates = 1
                    /\ Len(CallsOf(e, "chat.update")) = 1
                    /\ messages[e][1].text = CallsOf(e, "chat.update")[1].arg
               ELSE /\ messages[e][1].updates = 0
                    /\ CallsOf(e, "chat.update") = <<>>

ExactlyOneReplyWitness ==
    \E e \in Events :
        /\ pc[e] = "done"
        /\ local[e].command.type = "status"
        /\ Len(CallsOf(e, "databases.query")) = 1
        /\ ~CallsOf(e, "databases.query")[1].ok
        /\ Len(messages[e]) = 1
        /\ messages[e][1].updates = 1
        /\ includes(messages[e][1].text, "Failed to fetch")

\* C9: no failure raised while a mention is handled, the failure of the error
\* reply itself included, leaves the handler: the promise of the handler is
\* never rejected.
NoFailurePropagates ==
    \A e \in Events : pc[e] # "thrown"

\* the status that ends the life of a request of each category
TerminalStatus(requestType) ==
    IF requestType = "bd" THEN "Added to CRM" ELSE "Completed"

\* C10: a status command without "all" queries Notion with a filter that
\* excludes the terminal status of the category ("Completed", "Added to CRM"),
\* and the listing shows no page in that status; with "all" there is no filter
\* and every page of the category is listed.
StatusHidesTerminal ==
    \A e \in Events :
        local[e].command.type = "status" =>
            LET requestType == local[e].command.requestType
                showAll == local[e].command.showCompleted
            IN  /\ \A k \in 1..Len(calls[e]) :
                      calls[e][k].api = "databases.query" =>
                          /\ calls[e][k].arg.database_id = databaseIds[requestType]
                          /\ IF showAll
                             THEN calls[e][k].arg.filter = "none"
                             ELSE /\ calls[e][k].arg.filter = "Status does_not_equal"
                                  /\ calls[e][k].arg.value = TerminalStatus(requestType)
                /\ pc[e] \in {"status:chat.update", "done"} /\ local[e].error = NoError =>
                      /\ {local[e].response[j].id : j \in 1..Len(local[e].response)}
                            = {id \in 1..Len(pages) :
                                 /\ pages[id].database_id = databaseIds[requestType]
                                 /\ showAll \/ pages[id].Status # TerminalStatus(requestType)}
                      /\ ~showAll =>
                            \A j \in 1..Len(local[e].response) :
                                local[e].response[j].Status # TerminalStatus(requestType)
                /\ ~showAll =>
                      \A k \in 1..Len(calls[e]) :
                          calls[e][k].api = "chat.update" =>
                              ~includes(calls[e][k].arg,
                                        "* - " \o TerminalStatus(requestType) \o "\n")

StatusHidesTerminalWitness ==
    \E e \in Events :
        /\ mention[e].text = "status bd"
        /\ \E id \in 1..Len(pages) :
              pages[id].database_id = "db_bd" /\ pages[id].Status = "Added to CRM"
        /\ pc[e] = "done"
        /\ Len(messages[e]) = 1
        /\ includes(messages[e][1].text, "No requests found.")

\* the strings of a sequence, one after the other
RECURSIVE Concat(_)
Concat(strings) ==
    IF Len(strings) = 0 THEN "" ELSE strings[1] \o Concat(Tail(strings))

endsWith(s, p) == Len(p) <= Len(s) /\ SubSeq(s, Len(s) - Len(p) + 1, Len(s)) = p

\* the header and the hint of the listing of each category
StatusHeader(requestType) ==
    IF requestType = "bd" THEN "*Bd Requests Status:*\n\n"
    ELSE "*Feature Requests Status:*\n\n"

StatusHint(requestType) ==
    IF requestType = "bd"
    THEN "\n_Added to CRM bd requests are hidden. Use '@helperbot status bd all' to see everything._"
    ELSE "\n_Completed feature requests are hidden. Use '@helperbot status feature all' to see everything._"

\* the indices of the chat.update calls that carry the listing of a status
\* query that returned
ListingCalls(e) ==
    {k \in 2..Len(calls[e]) :
        /\ calls[e][k].api = "chat.update"
        /\ calls[e][k - 1].api = "databases.query"
        /\ calls[e][k - 1].ok}

\* the listing is header, body and, unless terminal records are included, hint
ListingIs(listing, requestType, includeTerminal, body) ==
    /\ listing = StatusHeader(requestType) \o body
                 \o (IF includeTerminal THEN "" ELSE StatusHint(requestType))
    /\ endsWith(listing, StatusHint(requestType)) <=> ~includeTerminal
    /\ includes(listing, "requests are hidden") <=> ~includeTerminal

\* C11: the listing a status command renders is the header of the category,
\* then exactly "No requests found." when the query returned no record and
\* otherwise one bullet line per returned record in the order returned, then
\* the hint that names the command revealing terminal records, which is
\* present if and only if terminal records were not included.
StatusRendered ==
    \A e \in Events :
        local[e].command.type = "status" =>
            \A k \in ListingCalls(e) :
                ListingIs(calls[e][k].arg, local[e].command.requestType,
                          local[e].command.showCompleted,
                          IF Len(local[e].response) = 0 THEN "No requests found."
                          ELSE Concat([j \in 1..Len(local[e].response) |->
                                         Bullet \o " *" \o local[e].response[j].Title
                                         \o "* - " \o local[e].response[j].Status \o "\n"]))

\* "status bd" with no business-development record outside "Added to CRM":
\* header, "No requests found." and the hint
StatusRenderedWitness ==
    \E e \in Events :
        /\ mention[e].text = "status bd"
        /\ pc[e] = "done"
        /\ ListingCalls(e) # {}
        /\ Len(local[e].response) = 0
        /\ Len(messages[e]) = 1
        /\ messages[e][1].text =
              "*Bd Requests Status:*\n\nNo requests found."
              \o "\n_Added to CRM bd requests are hidden. Use '@helperbot status bd all' to see everything._"

\* "status all" with two feature records: two bullet lines, the record edited
\* last first, and no hint
StatusRenderedOrdered ==
    \E e \in Events :
        /\ mention[e].text = "status all"
        /\ pc[e] = "done"
        /\ Len(messages[e]) = 1
        /\ messages[e][1].text =
              "*Feature Requests Status:*\n\n" \o Bullet \o " *Foo bar* - Completed\n"
              \o Bullet \o " *Foo widget* - New\n"

\* the listings event e sent: the texts of its listing calls
Listings(e) == {calls[e][k].arg : k \in ListingCalls(e)}

\* two status commands of the same category, neither including terminal
\* records, that both listed render the same text
SameListing ==
    \A e1, e2 \in Events :
        /\ local[e1].command.type = "status" /\ local[e2].command.type = "status"
        /\ local[e1].command.requestType = local[e2].command.requestType
        /\ ~local[e1].command.showCompleted /\ ~local[e2].command.showCompleted
        => \A t1 \in Listings(e1), t2 \in Listings(e2) : t1 = t2

\* C12: no step of the handling of a status command changes a record of the
\* store, and two status commands of the same category without terminal
\* records, with no mutation of the store in between, render identical
\* listings.
StatusIdempotent ==
    [][/\ pages' = pages
       /\ editOrder' = editOrder
       /\ SameListing']_vars

\* both events listed the open feature requests, two of them, with the same text
StatusIdempotentWitness ==
    /\ \A e \in Events :
          /\ mention[e].text = "status"
          /\ pc[e] = "done"
          /\ ListingCalls(e) # {}
          /\ Len(local[e].response) = 2
          /\ Len(messages[e]) = 1
    /\ messages[1][1].text = messages[2][1].text
    /\ includes(messages[1][1].text, "Foo bar")

\* the record a fetch by identifier returns is the page stored under it; the
\* page is the one the create path of e asked for: in the database of the
\* category, in the initial status of the category, titled by the first line
\* of the root message of the thread, prefixed with the category unless it
\* names it
CreatedAsAsked(page, e) ==
    LET requestType == local[e].command.requestType
    IN  /\ local[e].command.type = "create"
        /\ page.database_id = databaseIds[requestType]
        /\ page.Status = (IF requestType = "bd" THEN "Not in CRM yet" ELSE "New")
        /\ page.Title = requestTitle(mention[e].thread[1].text, requestType)
        /\ includes(toLowerCase(page.Title), requestType)

\* C13: a record the create path creates, fetched by the identifier assigned
\* to it, has the initial status of its category ("New", "Not in CRM yet")
\* and the title derived from the root message of the thread after the
\* category prefix is applied.
CreateRoundTrip ==
    [][Len(pages') > Len(pages) =>
          /\ Len(pages') = Len(pages) + 1
          /\ \E e \in Events :
                /\ pc[e] = "create:pages.create"
                /\ pc'[e] # pc[e]
                /\ CreatedAsAsked(pages'[Len(pages')], e)]_vars

\* the thread whose root is "Dark mode\nfor the dashboard" was saved as the
\* feature request "Feature request: Dark mode" in status "New"
CreateRoundTripWitness ==
    \E e \in Events :
        /\ pc[e] = "done"
        /\ local[e].command.type = "create"
        /\ local[e].error = NoError
        /\ Len(pages) > 0
        /\ CreatedAsAsked(pages[Len(pages)], e)
        /\ pages[Len(pages)].Title = "Feature request: Dark mode"
        /\ pages[Len(pages)].Status = "New"

\* the text holds "update" and " to " and splits, on "update" and whitespace
\* and then on " to ", into a query and a status text that are not empty
SplitsInTwo(text) ==
    /\ includes(toLowerCase(text), "update") /\ includes(toLowerCase(text), " to ")
    /\ Len(splitUpdate(text)) >= 2
    /\ Len(splitTo(splitUpdate(text)[2])) >= 2
    /\ trim(splitTo(splitUpdate(text)[2])[1]) # ""
    /\ trim(splitTo(splitUpdate(text)[2])[2]) # ""

NoHelpWord(text) ==
    ~includes(toLowerCase(text), "help") /\ ~includes(toLowerCase(text), "commands")

\* C14: a text without "help" or "commands" that holds "update" and " to " and
\* splits into a query and a status text is classified as update, also when
\* it holds "status": the update rule is applied before the status rule.
UpdateBeforeStatus ==
    (parsedCommand # NoCommand /\ NoHelpWord(inputText) /\ SplitsInTwo(inputText))
        => parsedCommand.type = "update"

\* C15: classification never errors: a text that holds "update" and " to " but
\* does not split into a query and a status text that are both not empty is
\* given to the next rule, so that parseCommand neither throws nor returns an
\* update whose query or status is empty.
ClassificationNeverErrors ==
    /\ parsedCommand # TypeError
    /\ parsedCommand.type = "update" =>
          parsedCommand.featureQuery # "" /\ parsedCommand.newStatus # ""

\* the request named by a mention "update bd <request> to <status>"
NamedRequest(text) == trim(splitTo(SubSeq(text, Len("update bd ") + 1, Len(text)))[1])

\* C16: a mention "update bd <request> to <status>" is an update of category
\* bd whose lookup searches the bd database for the request named <request>.
UpdateBdTargetsRequest ==
    \A e \in Events :
        (startsWithAt(mention[e].text, 1, "update bd ")
         /\ pc[e] \notin {"idle", "app_mention"}) =>
            /\ local[e].command.type = "update"
            /\ local[e].command.requestType = "bd"
            /\ local[e].command.featureQuery = NamedRequest(mention[e].text)
            /\ \A k \in 1..Len(calls[e]) :
                  calls[e][k].api = "databases.query" =>
                      /\ calls[e][k].arg.database_id = databaseIds.bd
                      /\ calls[e][k].arg.value = NamedRequest(mention[e].text)

\* C17: a status command includes the terminal records if and only if the
\* lower-cased text holds "all", "completed" or the name of the terminal
\* status of its category ("completed", "added to crm").
IncludeTerminalByStatusName ==
    parsedCommand.type = "status" =>
        (parsedCommand.showCompleted <=>
            \/ includes(toLowerCase(inputText), "all")
            \/ includes(toLowerCase(inputText), "completed")
            \/ includes(toLowerCase(inputText),
                        toLowerCase(TerminalStatus(parsedCommand.requestType))))

\* C17, amended: a status command includes the terminal records if and only
\* if the lower-cased text holds "all" or "completed", whatever its category:
\* the name of the terminal status of bd, "added to crm", is not a keyword.
IncludeTerminalByKeyword ==
    parsedCommand.type = "status" =>
        /\ parsedCommand.showCompleted \in BOOLEAN
        /\ parsedCommand.showCompleted <=>
              \/ includes(toLowerCase(inputText), "all")
              \/ includes(toLowerCase(inputText), "completed")

\* a bd status command that names "completed" and not "all"
IncludeTerminalByKeywordWitness ==
    /\ parsedCommand.type = "status"
    /\ parsedCommand.requestType = "bd"
    /\ parsedCommand.showCompleted = TRUE
    /\ ~includes(toLowerCase(inputText), "all")
    /\ includes(toLowerCase(inputText), "completed")

\* C18: classification is total: every text is classified as exactly one of
\* help, status, update and create, and a text that matches none of the help,
\* status and update rules is a create command of the category detected.
ClassificationTotal ==
    parsedCommand # NoCommand =>
        /\ parsedCommand.type \in {"help", "status", "update", "create"}
        /\ (/\ NoHelpWord(inputText)
            /\ ~includes(toLowerCase(inputText), "status")
            /\ ~SplitsInTwo(inputText))
           => /\ parsedCommand.type = "create"
              /\ parsedCommand.requestType = getRequestType(inputText)

\* the identifier shape: 32 characters, each a digit or a letter from a to f
HexIdentifier(query) ==
    /\ Len(query) = 32
    /\ \A i \in 1..32 : SubSeq(query, i, i) \in Range(<<"0", "1", "2", "3", "4", "5", "6",
                             "7", "8", "9", "a", "b", "c", "d", "e", "f">>)

\* the k-th call of e is the title query of its update, and it returned
TitleQueryReturned(e, k) ==
    /\ k <= Len(calls[e])
    /\ calls[e][k].api = "databases.query"
    /\ calls[e][k].ok

ThreadUnreadable(e) ==
    /\ local[e].command.type = "create"
    /\ Len(calls[e]) >= 1
    /\ calls[e][1].api = "conversations.replies"
    /\ ~calls[e][1].ok \/ local[e].replies = <<>>

\* C20: when the thread of a create command cannot be read or holds no
\* message the handler fails fast: its next call is the error reply, it
\* looks no user up, calls neither the channel lookup nor Notion, and no page
\* is created.
CreateFailsFast ==
    \A e \in Events :
        ThreadUnreadable(e) =>
            /\ \A k \in 1..Len(calls[e]) :
                  calls[e][k].api \notin
                      NotionApis \cup {"users.info", "conversations.info"}
            /\ pages = SubSeq(SeedPages, 1, Len(pages))
            /\ pc[e] # "create:catch:postMessage" =>
                  /\ Len(calls[e]) >= 2
                  /\ calls[e][2].api = "chat.postMessage"
                  /\ includes(calls[e][2].arg, "Failed to save")
                  /\ calls[e][2].ok =>
                        /\ pc[e] = "done"
                        /\ Len(messages[e]) = 1
                        /\ messages[e][1].text = calls[e][2].arg

\* the fetch returned no message and the only reply says so
CreateFailsFastWitness ==
    \E e \in Events :
        /\ ThreadUnreadable(e)
        /\ calls[e][1].ok
        /\ pc[e] = "done"
        /\ Len(calls[e]) = 2
        /\ Len(messages[e]) = 1
        /\ messages[e][1].text =
              CrossMark \o " Failed to save feature request: No messages found in thread"

(***************************************************************************)
(* Properties of the store under concurrent mentions                       *)
(***************************************************************************)

\* C21: in every reachable state, whatever the interleaving of the updates
\* and the creations handled, the status of every page is one of the
\* statuses valid for the category of its database.
StatusInEnumeration ==
    \A id \in 1..Len(pages) :
        \E requestType \in {"feature", "bd"} :
            /\ pages[id].database_id = databaseIds[requestType]
            /\ pages[id].Status \in Range(validStatuses[requestType])

\* an update wrote "Rejected" on the first page while the other mention
\* saved its thread as a new page
StatusInEnumerationWitness ==
    /\ pc[1] = "done" /\ pc[2] = "done"
    /\ local[1].command.type = "update" /\ local[2].command.type = "create"
    /\ \E k \in 1..Len(calls[1]) : calls[1][k].api = "pages.update" /\ calls[1][k].ok
    /\ Len(pages) = 2
    /\ pages[1].Status = "Rejected"
    /\ pages[2].Status = "New" /\ pages[2].Title = "Feature request: Dark mode"

\* C22: no step of the handling of any command deletes a page, and the only
\* field of an existing page a step changes is its status: database, title,
\* Slack URL, date of creation and body stay as they were.
OnlyStatusChanges ==
    [][/\ Len(pages') >= Len(pages)
       /\ \A id \in 1..Len(pages) :
             [pages'[id] EXCEPT !.Status = pages[id].Status] = pages[id]]_vars

\* an update changed the status of the first page and nothing else of it,
\* and the second page is as it was
OnlyStatusChangesWitness ==
    \E e \in Events :
        /\ pc[e] = "done"
        /\ local[e].command.type = "update"
        /\ Len(pages) >= 2
        /\ pages[1].Status = "In Progress"
        /\ pages[1] = [SeedPages[1] EXCEPT !.Status = "In Progress"]
        /\ pages[2] = SeedPages[2]

\* the text that reports a timeout of Notion, and no other failure
TimeoutText == "Request timed out. The Notion API might be experiencing delays."

\* C23: in the status path the provisional reply is posted before the query
\* is issued; whether the query returns, fails or times out, the provisional
\* message, and no other, is overwritten, once, with the listing or with an
\* error; the error text of a timeout differs from that of any other failure
\* of Notion.
StatusOverwritesOnce ==
    \A e \in Events :
        local[e].command.type = "status" =>
            /\ \A k \in 1..Len(calls[e]) :
                  calls[e][k].api = "databases.query" =>
                      /\ k = 2
                      /\ calls[e][1].api = "chat.postMessage" /\ calls[e][1].ok
                      /\ includes(calls[e][1].arg, "Fetching")
                      /\ local[e].loadingMessage = 1
            /\ \A m \in 1..Len(messages[e]) :
                  /\ messages[e][m].updates <= 1
                  /\ messages[e][m].updates = 1 => m = local[e].loadingMessage
            /\ \A k \in 1..Len(calls[e]) :
                  (calls[e][k].api = "chat.update" /\ calls[e][k].ok) =>
                      /\ pc[e] = "done"
                      /\ k = Len(calls[e])
                      /\ Len(messages[e]) = 1
                      /\ messages[e][1].updates = 1
                      /\ messages[e][1].text = calls[e][k].arg
                      /\ IF calls[e][2].ok /\ k = 3
                         THEN includes(calls[e][k].arg, "Requests Status:")
                         ELSE includes(calls[e][k].arg, "Failed to fetch")
            /\ (pc[e] = "done" /\ ChatCallsReturned(e)) =>
                  Len(CallsOf(e, "chat.update")) = 1
            /\ (Len(calls[e]) >= 3 /\ ~calls[e][2].ok /\ calls[e][3].ok) =>
                  (includes(calls[e][3].arg, TimeoutText)
                      <=> local[e].error \in {NotionTimeout, RaceTimeout})

\* the query timed out and the provisional message now reports the timeout
StatusOverwritesOnceWitness ==
    \E e \in Events :
        /\ local[e].command.type = "status"
        /\ pc[e] = "done"
        /\ Len(calls[e]) = 3
        /\ ~calls[e][2].ok
        /\ local[e].error = RaceTimeout
        /\ Len(messages[e]) = 1
        /\ messages[e][1].updates = 1
        /\ messages[e][1].text = CrossMark \o " Failed to fetch feature requests: " \o TimeoutText

\* C24: outside the retry loop of the create path no call of Notion is issued
\* again: a status command issues at most one query; an update command at
\* most one query, at most one fetch by identifier and at most one update of
\* a page, also when a call fails or times out.
NoRetryOutsideCreate ==
    \A e \in Events :
        /\ local[e].command.type = "status" =>
              /\ Len(CallsOf(e, "databases.query")) <= 1
              /\ \A k \in 1..Len(calls[e]) :
                    calls[e][k].api \in NotionApis => calls[e][k].api = "databases.query"
        /\ local[e].command.type = "update" =>
              /\ Len(CallsOf(e, "databases.query")) <= 1
              /\ Len(CallsOf(e, "pages.retrieve")) <= 1
              /\ Len(CallsOf(e, "pages.update")) <= 1
              /\ Len(CallsOf(e, "pages.create")) = 0
        /\ local[e].command.type = "help" =>
              \A k \in 1..Len(calls[e]) : calls[e][k].api \notin NotionApis

\* the update of a page timed out and the handler ended with its error reply,
\* having issued one query and one update
NoRetryOutsideCreateWitness ==
    \E e \in Events :
        /\ local[e].command.type = "update"
        /\ pc[e] = "done"
        /\ Len(calls[e]) = 3
        /\ calls[e][1].api = "databases.query" /\ calls[e][1].ok
        /\ calls[e][2].api = "pages.update" /\ ~calls[e][2].ok
        /\ local[e].error = NotionTimeout
        /\ calls[e][3].api = "chat.postMessage"
        /\ includes(calls[e][3].arg, TimeoutText)

(***************************************************************************)
(* The timestamp of a Slack message as an ISO 8601 date                     *)
(***************************************************************************)

\* the number a string of decimal digits denotes
RECURSIVE NumberOf(_)
NumberOf(digits) ==
    IF Len(digits) = 0 THEN 0
    ELSE NumberOf(SubSeq(digits, 1, Len(digits) - 1)) * 10
         + (CHOOSE d \in 0..9 :
               SubSeq("0123456789", d + 1, d + 1) = SubSeq(digits, Len(digits), Len(digits)))

\* n in decimal digits, padded with zeros to width
RECURSIVE Padded(_, _)
Padded(n, width) ==
    IF width = 0 THEN ""
    ELSE Padded(n \div 10, width - 1) \o SubSeq("0123456789", (n % 10) + 1, (n % 10) + 1)

\* the date of the day doy of the year that starts on the 1st of March of y,
\* whose month is the mp-th after March
DateOfMonth(y, doy, mp) ==
    Padded(IF mp < 10 THEN y ELSE y + 1, 4) \o "-"
    \o Padded(IF mp < 10 THEN mp + 3 ELSE mp - 9, 2) \o "-"
    \o Padded(doy - ((153 * mp + 2) \div 5) + 1, 2)

DateOfYear(y, doy) == DateOfMonth(y, doy, (5 * doy + 2) \div 153)

\* the date of day doe of a 400-year era, yoe being the year of the era
DateOfEra(era, doe, yoe) ==
    DateOfYear(yoe + era * 400, doe - (365 * yoe + (yoe \div 4) - (yoe \div 100)))

\* the date of a day counted from the 1st of March of the year 0
DateOfDay(z) ==
    DateOfEra(z \div 146097, z % 146097,
              ((z % 146097) - ((z % 146097) \div 1460) + ((z % 146097) \div 36524)
               - ((z % 146097) \div 146096)) \div 365)

\* the ISO 8601 date, in UTC and to the millisecond, of a Slack timestamp
\* "seconds.microseconds"
IsoOfSeconds(seconds, millis) ==
    DateOfDay((seconds \div 86400) + 719468) \o "T"
    \o Padded((seconds % 86400) \div 3600, 2) \o ":"
    \o Padded((seconds % 3600) \div 60, 2) \o ":"
    \o Padded(seconds % 60, 2) \o "." \o millis \o "Z"

IsoOfTimestamp(ts) == IsoOfSeconds(NumberOf(SubSeq(ts, 1, 10)), SubSeq(ts, 12, 14))

TitleBounded ==
    \A e \in Events : \A k \in 1..Len(calls[e]) :
        calls[e][k].api = "pages.create" =>
            Len(calls[e][k].arg.Title)
                <= TitleLength
                   + Len(capitalize(local[e].command.requestType) \o " request: ")

\* C27: of a text classified as update, neither the query nor the new status
\* keeps a quote character: the query of update "foo" to "Completed" is foo.
UpdatePartsUnquoted ==
    parsedCommand.type = "update" =>
        /\ ~includes(parsedCommand.featureQuery, "\"")
        /\ ~includes(parsedCommand.newStatus, "\"")
        /\ (inputText = "update \"foo\" to \"Completed\""
              => parsedCommand.featureQuery = "foo")

\* the replies of thread from the k-th on that do not mention the bot, each
\* attributed to its author
RECURSIVE AttributedReplies(_, _)
AttributedReplies(thread, k) ==
    IF k > Len(thread) THEN ""
    ELSE (IF includes(thread[k].text, "<@U0BOT>") \/ includes(thread[k].text, "@helperbot")
          THEN ""
          ELSE "- " \o Users[thread[k].user] \o ": " \o thread[k].text \o "\n")
         \o AttributedReplies(thread, k + 1)

\* C28: the transcript every attempt of the create path stores is the root
\* message attributed to its author, then the replies that do not contain
\* the mention of the bot, each attributed to its author, in thread order.
TranscriptOfThread ==
    \A e \in Events : \A k \in 1..Len(calls[e]) :
        calls[e][k].api = "pages.create" =>
            calls[e][k].arg.children[1] =
                "*Original request by " \o Users[mention[e].thread[1].user] \o ":*\n"
                \o mention[e].thread[1].text \o "\n\n"
                \o (IF Len(mention[e].thread) > 1
                    THEN "*Additional context from thread:*\n" ELSE "")
                \o AttributedReplies(mention[e].thread, 2)

(***************************************************************************)
(* Two updates of the same page                                            *)
(***************************************************************************)

\* handler e has just been answered by Notion that its pages.update was applied
UpdateApplied(e) ==
    /\ Len(calls'[e]) = Len(calls[e]) + 1
    /\ calls'[e][Len(calls'[e])].api = "pages.update"
    /\ calls'[e][Len(calls'[e])].applied

\* C29: two updates of the same page handled at once are neither serialized
\* nor rejected: every handler whose status is valid and whose query returned
\* one page asks Notion for its change and, when Notion returns, posts its
\* confirmation; every change Notion applies sets the status of the page, and
\* a status changes in no other step, so that the status the page ends with is
\* the one of the change applied last.
ConcurrentUpdatesLastWins ==
    /\ [](\A e \in Events :
            (/\ local[e].command.type = "update"
             /\ Len(local[e].response) = 1
             /\ pc[e] # "update:pages.update")
            => \E k \in 1..Len(calls[e]) :
                  /\ calls[e][k].api = "pages.update"
                  /\ calls[e][k].arg = [page_id |-> local[e].response[1].id,
                                        Status |-> local[e].exactStatusMatch]
                  /\ (calls[e][k].ok /\ pc[e] # "update:postMessage")
                        => /\ k < Len(calls[e])
                           /\ calls[e][k + 1].api = "chat.postMessage"
                           /\ calls[e][k + 1].arg =
                                  updatedMessage(local[e].response[1].Title,
                                                 local[e].response[1].Status,
                                                 local[e].exactStatusMatch))
    /\ [][/\ \A e \in Events :
              UpdateApplied(e)
              => LET call == calls'[e][Len(calls'[e])]
                 IN  /\ call.arg.page_id \in 1..Len(pages')
                     /\ pages'[call.arg.page_id].Status = call.arg.Status
          /\ \A id \in 1..Len(pages) :
              (Len(pages') >= id /\ pages'[id].Status # pages[id].Status)
              => \E e \in Events :
                    /\ UpdateApplied(e)
                    /\ calls'[e][Len(calls'[e])].arg.page_id = id]_vars

\* both handlers queried the page while it was New, both changes were applied
\* and confirmed, and the page ends with the status of the first handler,
\* whose change Notion applied after the other
ConcurrentUpdatesLastWinsWitness ==
    /\ pc[1] = "done" /\ pc[2] = "done"
    /\ Len(calls[1]) = 3 /\ Len(calls[2]) = 3
    /\ \A e \in Events :
          /\ calls[e][2].api = "pages.update" /\ calls[e][2].ok
          /\ calls[e][2].arg.page_id = 1
          /\ local[e].response[1].Status = "New"
          /\ calls[e][3].api = "chat.postMessage" /\ calls[e][3].ok
          /\ Len(messages[e]) = 1
          /\ includes(messages[e][1].text, "from \"New\"")
    /\ calls[1][2].arg.Status = "Completed"
    /\ calls[2][2].arg.Status = "Rejected"
    /\ editOrder[1] = 1
    /\ pages[1].Status = "Completed"

\* C30: the previous status the confirmation of an update reports is the
\* status the page had in Notion just before the change of that update was
\* applied: when Notion applies the pages.update of a handler, the
\* confirmation the handler goes on to post is the one that names the status
\* the page has at that moment.
PreviousStatusReported ==
    [][\A e \in Events :
          (UpdateApplied(e) /\ calls'[e][Len(calls'[e])].ok)
          => updatedMessage(orElse(local'[e].response[1].Title, "Untitled"),
                            orElse(local'[e].response[1].Status, "Unknown"),
                            local'[e].exactStatusMatch)
             = updatedMessage(pages[calls'[e][Len(calls'[e])].arg.page_id].Title,
                              pages[calls'[e][Len(calls'[e])].arg.page_id].Status,
                              calls'[e][Len(calls'[e])].arg.Status)]_vars

(***************************************************************************)
(* Termination of the handlers                                             *)
(***************************************************************************)

\* C31: the handling of every mention ends, the calls of Slack returning or
\* throwing: the retry loop of the create path asks Notion at most maxRetries
\* times, and a handler that awaits Notion, in the status, update and create
\* paths, goes on with the response, the error or the timeout.
HandlingTerminates ==
    /\ [](\A e \in Events :
            /\ Len(CallsOf(e, "pages.create")) <= maxRetries
            /\ local[e].attempt <= maxRetries)
    /\ \A e \in Events : (pc[e] = "app_mention") ~> (pc[e] = "done")

\* a create path that ended after three attempts that timed out
HandlingTerminatesWitness ==
    \E e \in Events :
        /\ pc[e] = "done"
        /\ local[e].command.type = "create"
        /\ Len(CallsOf(e, "pages.create")) = maxRetries
        /\ \A k \in 1..maxRetries : ~CallsOf(e, "pages.create")[k].ok
        /\ local[e].error = NotionTimeout
        /\ Len(messages[e]) = 1
        /\ includes(messages[e][1].text, TimeoutText)

(***************************************************************************)
(* The thread of the replies                                               *)
(***************************************************************************)

\* C32: every message posted while handling a mention is in the channel of
\* the mention and in its thread, the thread of the event or the event itself
\* when it is in no thread; a step of a handler posts or changes messages of
\* its own mention only, and the only message it changes is the loading
\* message it posted itself, by a chat.update that returned.
RepliesStayInThread ==
    /\ [](\A e \in Events : \A k \in 1..Len(messages[e]) :
            /\ messages[e][k].channel = mention[e].channel
            /\ messages[e][k].thread_ts =
                  (IF mention[e].thread_ts # Undefined
                   THEN mention[e].thread_ts ELSE mention[e].ts))
    /\ [][\A e \in Events :
             messages'[e] # messages[e]
             => /\ pc'[e] # pc[e]
                /\ \A d \in Events \ {e} : messages'[d] = messages[d] /\ pc'[d] = pc[d]
                /\ Len(messages'[e]) >= Len(messages[e])
                /\ \A k \in 1..Len(messages[e]) :
                      messages'[e][k] # messages[e][k]
                      => /\ k = local[e].loadingMessage
                         /\ Len(calls'[e]) = Len(calls[e]) + 1
                         /\ calls'[e][Len(calls'[e])].api = "chat.update"
                         /\ calls'[e][Len(calls'[e])].ok
                         /\ messages'[e][k] =
                               [messages[e][k] EXCEPT
                                  !.text = calls'[e][Len(calls'[e])].arg,
                                  !.updates = @ + 1]]_vars

\* two status commands handled at once, the second in a thread: each has
\* overwritten its own loading message, in its own thread
RepliesStayInThreadWitness ==
    /\ pc[1] = "done" /\ pc[2] = "done"
    /\ mention[1].thread_ts = Undefined
    /\ mention[2].thread_ts = "1700000000.000600"
    /\ Len(messages[1]) = 1 /\ Len(messages[2]) = 1
    /\ messages[1][1].thread_ts = mention[1].ts
    /\ messages[2][1].thread_ts = "1700000000.000600"
    /\ messages[1][1].updates = 1 /\ messages[2][1].updates = 1
    /\ messages[1][1].text # messages[2][1].text

(***************************************************************************)
(* The database of each category                                           *)
(***************************************************************************)

\* C33: a command of category c queries the database of c, creates its page
\* in the database of c with the first status of c, changes only pages of the
\* database of c, to a status of the enumeration of c, and names the
\* enumeration of c when it refuses a status; no page changes database.
CategoryKept ==
    /\ [](\A e \in Events : \A k \in 1..Len(calls[e]) :
            LET c == local[e].command.requestType
                call == calls[e][k]
            IN  /\ call.api = "databases.query" => call.arg.database_id = databaseIds[c]
                /\ call.api = "pages.create"
                      => /\ call.arg.database_id = databaseIds[c]
                         /\ call.arg.Status \in Range(validStatuses[c])
                /\ call.api = "pages.update"
                      => /\ call.arg.page_id \in 1..Len(pages)
                         /\ pages[call.arg.page_id].database_id = databaseIds[c]
                         /\ call.arg.Status \in Range(validStatuses[c])
                /\ (call.api = "chat.postMessage" /\ includes(call.arg, "Invalid status"))
                      => includes(call.arg, "Valid statuses for " \o c \o " are: "
                                            \o joinWith(validStatuses[c], ", ")))
    /\ [][/\ Len(pages') >= Len(pages)
           /\ \A id \in 1..Len(pages) :
                 pages'[id].database_id = pages[id].database_id]_vars

\* "bd update acme to not in crm yet" reopened the request of the bd database,
\* and the pages of the feature database are as they were
CategoryKeptWitness ==
    \E e \in Events :
        /\ pc[e] = "done"
        /\ local[e].command.type = "update" /\ local[e].command.requestType = "bd"
        /\ Len(calls[e]) = 3
        /\ calls[e][1].api = "databases.query" /\ calls[e][1].arg.database_id = "db_bd"
        /\ calls[e][2].api = "pages.update" /\ calls[e][2].ok
        /\ calls[e][2].arg = [page_id |-> 3, Status |-> "Not in CRM yet"]
        /\ Len(pages) = 3
        /\ pages[3].database_id = "db_bd" /\ pages[3].Status = "Not in CRM yet"
        /\ pages[1] = SeedPages[1] /\ pages[2] = SeedPages[2]

(***************************************************************************)
(* What the reply says and what Notion holds                               *)
(***************************************************************************)

\* C34: a handler that replied that the update failed changed no status, a
\* handler that replied that the saving failed created no page, and a handler
\* that replied with a confirmation had its change or its page accepted by
\* Notion, whatever call failed.
FailureReplyMeansNoChange ==
    \A e \in Events : \A m \in 1..Len(messages[e]) :
        /\ includes(messages[e][m].text, "Failed to update")
              => \A k \in 1..Len(calls[e]) :
                    calls[e][k].api = "pages.update" => ~calls[e][k].applied
        /\ includes(messages[e][m].text, "Failed to save")
              => \A k \in 1..Len(calls[e]) :
                    calls[e][k].api = "pages.create" => ~calls[e][k].applied
        /\ (\/ includes(messages[e][m].text, "Updated status of")
            \/ includes(messages[e][m].text, "request saved to Notion database!"))
              => \E k \in 1..Len(calls[e]) :
                    calls[e][k].api \in {"pages.update", "pages.create"} /\ calls[e][k].ok

(***************************************************************************)
(* The query that lost the race                                            *)
(***************************************************************************)

\* C35: when the timer of the status path fires before Notion responds, the
\* loading message is overwritten once, with the timeout error; the response
\* or the error of Notion that arrives afterwards posts nothing, updates
\* nothing, and neither resumes nor fails the handler.
LateResponseDropped ==
    /\ [](\A e \in Events :
            (/\ Len(calls[e]) >= 3
             /\ calls[e][2].api = "databases.query" /\ ~calls[e][2].ok
             /\ calls[e][3].api = "chat.update" /\ calls[e][3].ok)
            => /\ Len(calls[e]) = 3
               /\ pc[e] = "done"
               /\ local[e].loadingMessage \in 1..Len(messages[e])
               /\ messages[e][local[e].loadingMessage].updates = 1
               /\ messages[e][local[e].loadingMessage].text = calls[e][3].arg
               /\ local[e].error = RaceTimeout
                     => calls[e][3].arg =
                           CrossMark \o " Failed to fetch "
                           \o local[e].command.requestType \o " requests: " \o TimeoutText)
    /\ [][\A e \in Events :
             (local[e].responsePromise = "pending" /\ local'[e].responsePromise # "pending")
             => /\ messages' = messages
                /\ calls' = calls
                /\ pc' = pc
                /\ pages' = pages
                /\ local'[e].error = local[e].error]_vars

\* the timer fired first, the loading message was overwritten with the
\* timeout error, and the response of Notion arrived after the handler was done
LateResponseDroppedWitness ==
    \E e \in Events :
        /\ pc[e] = "done"
        /\ local[e].command.type = "status"
        /\ local[e].error = RaceTimeout
        /\ local[e].responsePromise = "fulfilled"
        /\ Len(calls[e]) = 3
        /\ calls[e][3].api = "chat.update" /\ calls[e][3].ok
        /\ Len(messages[e]) = 1
        /\ messages[e][1].updates = 1
        /\ includes(messages[e][1].text, TimeoutText)

(***************************************************************************)
(* The statuses the update command can set                                 *)
(***************************************************************************)

\* C36: every status of the enumeration of every category can be set by an
\* update: a mention "update <query> to s" of category c, s a status of c, is
\* handled as an update whose new status validates to s, and when its query
\* returns one page and every call returns, the page is left in status s.
EveryStatusSettable ==
    \A e \in Events : \A c \in {"feature", "bd"} : \A status \in Range(validStatuses[c]) :
        (/\ pc[e] \notin {"idle", "app_mention"}
         /\ getRequestType(mention[e].text) = c
         /\ includes(toLowerCase(mention[e].text), "update ")
         /\ endsWith(toLowerCase(mention[e].text), " to " \o toLowerCase(status)))
        => /\ local[e].command.type = "update"
           /\ local[e].exactStatusMatch = status
           /\ (/\ pc[e] = "done"
               /\ Len(local[e].response) = 1
               /\ \A k \in 1..Len(calls[e]) : calls[e][k].ok)
              => pages[local[e].response[1].id].Status = status

(***************************************************************************)
(* User lookups that fail                                                  *)
(***************************************************************************)

\* C37: in the create path the lookup of the author of a reply that fails
\* does not end the saving: the reply is in the transcript under the name
\* "Unknown User", the handler goes on to the next lookup or to
\* notion.pages.create, and every page asked for holds that line; the lookup
\* of the author of the root message that fails is followed by the error
\* reply alone, without any call of Notion.
LookupFailures ==
    \A e \in Events :
        /\ \A k \in 4..Len(calls[e]) :
              (/\ local[e].command.type = "create"
               /\ calls[e][k].api = "users.info" /\ ~calls[e][k].ok)
              => /\ \E m \in 2..Len(mention[e].thread) :
                       /\ mention[e].thread[m].user = calls[e][k].arg
                       /\ includes(local[e].fullDescription,
                                   "- Unknown User: " \o mention[e].thread[m].text \o "\n")
                       /\ \A j \in 1..Len(calls[e]) :
                             calls[e][j].api = "pages.create"
                             => includes(calls[e][j].arg.children[1],
                                         "- Unknown User: " \o mention[e].thread[m].text \o "\n")
                 /\ pc[e] \in {"create:thread:users.info", "create:pages.create"}
                       \/ (k < Len(calls[e])
                           /\ calls[e][k + 1].api \in {"users.info", "pages.create"})
                 /\ pc[e] = "done"
                       => \E j \in 1..Len(calls[e]) : calls[e][j].api = "pages.create"
        /\ (/\ local[e].command.type = "create"
            /\ Len(calls[e]) >= 2
            /\ calls[e][2].api = "users.info" /\ ~calls[e][2].ok)
           => /\ \A j \in 1..Len(calls[e]) :
                    calls[e][j].api \notin {"pages.create", "conversations.info"}
              /\ Len(calls[e]) >= 3
                    => /\ calls[e][3].api = "chat.postMessage"
                       /\ includes(calls[e][3].arg, "Failed to save")
              /\ pc[e] = "create:catch:postMessage" \/ Len(calls[e]) >= 3

\* the lookup of the author of "needed by Q3" failed, and the thread was saved
\* with that reply under the name Unknown User
LookupFailuresWitness ==
    \E e \in Events :
        /\ pc[e] = "done"
        /\ Len(calls[e]) = 6
        /\ calls[e][4].api = "users.info" /\ ~calls[e][4].ok
        /\ calls[e][5].api = "pages.create" /\ calls[e][5].ok
        /\ calls[e][6].api = "chat.postMessage" /\ calls[e][6].ok
        /\ Len(pages) > 0
        /\ includes(pages[Len(pages)].children[1], "- Unknown User: needed by Q3\n")
        /\ includes(messages[e][1].text, "request saved to Notion database!")

====
